---- MODULE Spec2Model ----
(***************************************************************************)
(* Model of the media-source engine of                                     *)
(* agora_streaming_controlled_with_timestamp.cpp: the PlaylistManager      *)
(* (active playlist, demuxer, pending triple, mutex), the CommandQueue,    *)
(* the stdin command reader, the detached preload threads and the send     *)
(* loop SampleSendVideoH264Task.                                           *)
(*                                                                         *)
(* A transport-stream file is abstracted to its sequence of access units:  *)
(* a readable file holds NumAU access units, numbered 1..NumAU, and the    *)
(* demuxer's read offset counts the access units already consumed.  A file *)
(* that cannot be opened (missing file, unreachable URL) makes             *)
(* HelperTsH264FileParser::initialize fail and leaves the parser with      *)
(* size_ = 0, so that every read reports end of file.                      *)
(*                                                                         *)
(* internalSetupSingleFile / internalSetupPlaylist write the members       *)
(* currentSegmentIndex_ and currentParser_ directly, also when they are    *)
(* called from preloadNewPlaylist on a detached thread that holds no lock. *)
(* The preload is therefore modelled statement by statement, interleaved   *)
(* with the send loop; an unlocked write of currentParser_ while the send  *)
(* loop is inside a critical section is a data race whose outcome is       *)
(* either one of the interleavings or a crash of the process.              *)
(***************************************************************************)
EXTENDS Integers, Sequences, FiniteSets, TLC

\* ---------------------------------------------------------------- bounds
\* access units held by every readable transport-stream file
NumAU == 3
\* lines the command reader reads from stdin before end of input
MaxLines == 2

\* ------------------------------------------------------- the file system
\* sources the engine may be started on
InitialSources == {"A.m3u8", "S.ts", "X.m3u8", "Y.m3u8", "X.ts"}

\* sources a SWITCH_VIDEO line may name
SwitchSources == {"B.m3u8", "S.ts", "X.ts", "X.m3u8"}

\* segment lines of each playlist document; a document that cannot be
\* fetched or opened, or that holds no segment line, has no entry here
PlaylistDocs ==
  [s \in {"A.m3u8", "B.m3u8", "Y.m3u8", "Z.m3u8", "D.m3u8"} |->
     CASE s = "A.m3u8" -> <<"a1.ts", "a2.ts">>
       [] s = "B.m3u8" -> <<"b1.ts", "b2.ts">>
       [] s = "Y.m3u8" -> <<"y1.ts", "y2.ts">>
       [] s = "Z.m3u8" -> <<"z1.ts", "z2.ts">>
       [] s = "D.m3u8" -> <<"d1.ts", "d2">>]

\* playlists with a first segment that plays and a second one on which
\* initialize() fails: z2.ts does not exist, d2 is a directory
BadSegmentSources == {"Z.m3u8", "D.m3u8"}

\* files that can be opened, mapped and probed (they carry an H.264 stream)
ReadableFiles ==
  {"a1.ts", "a2.ts", "b1.ts", "b2.ts", "y2.ts", "S.ts", "z1.ts", "d1.ts"}

\* files that open() and fstat() accept and mmap() refuses: initialize()
\* returns false with size_ = st.st_size set and data_ = nullptr
UnmappableFiles == {"d2"}

\* PlaylistManager::isM3U8: the path ends in ".m3u8"
isM3U8(path) ==
  path \in {"A.m3u8", "B.m3u8", "X.m3u8", "Y.m3u8", "Z.m3u8", "D.m3u8"}

Range(seq) == {seq[i] : i \in 1..Len(seq)}

\* ------------------------------------------------------------ the demuxer
NullParser == [file |-> "", offset |-> 0, ok |-> FALSE]
NoFrame == [file |-> "", n |-> 0]

\* HelperTsH264FileParser constructor: nothing opened yet, size_ = 0
HelperTsH264FileParser(path) == [file |-> path, offset |-> 0, ok |-> FALSE]

\* HelperTsH264FileParser::initialize: open, mmap, offset_ = 0, probe
initialize(p) ==
  IF p.file \in ReadableFiles
    THEN [p EXCEPT !.ok = TRUE, !.offset = 0]
    ELSE [p EXCEPT !.ok = FALSE]

\* HelperTsH264FileParser::setFileParseRestart
setFileParseRestart(p) == [p EXCEPT !.offset = 0]

\* HelperTsH264FileParser::getH264Frame: the next access unit, or nullptr
\* with the offset reset to 0 at end of file
getH264Frame(p) ==
  IF p.ok /\ p.offset < NumAU
    THEN [frame |-> [file |-> p.file, n |-> p.offset + 1],
          parser |-> [p EXCEPT !.offset = @ + 1]]
    ELSE [frame |-> NoFrame, parser |-> [p EXCEPT !.offset = 0]]

\* ---------------------------------------------------- the playlist manager
\* a PlaylistManager object right after construction
NewManager ==
  [segmentPaths |-> <<>>, currentSegmentIndex |-> 0,
   currentParser |-> NullParser, isPlaylist |-> FALSE,
   currentVideoFile |-> "",
   newSegmentPaths |-> <<>>, newVideoFile |-> "", newPlaylistReady |-> FALSE]

\* first statements of internalSetupSingleFile / internalSetupPlaylist:
\* isPlaylist and paths are the caller's, currentSegmentIndex_ is the member
setupBegin(m) == [m EXCEPT !.currentSegmentIndex = 0]

\* internalSetupPlaylist, fetch and parse: the segment paths of the
\* playlist, or failure; internalSetupSingleFile: the path itself
setupPaths(path) ==
  IF isM3U8(path)
    THEN IF path \in DOMAIN PlaylistDocs
           THEN [ok |-> TRUE, paths |-> PlaylistDocs[path]]
           ELSE [ok |-> FALSE, paths |-> <<>>]
    ELSE [ok |-> TRUE, paths |-> <<path>>]

\* currentParser_.reset(new HelperTsH264FileParser(paths[0]))
setupParser(m, paths) ==
  [m EXCEPT !.currentParser = HelperTsH264FileParser(paths[1])]

\* return currentParser_->initialize(): acts on whatever demuxer the member
\* points to when the statement runs
setupInit(m) == [m EXCEPT !.currentParser = initialize(@)]

\* PlaylistManager::initialize, under the mutex, before any thread exists
\* (variant: the result of the demuxer's initialize() is dropped)
pmInitializeUnchecked(m, input) ==
  LET m1 == setupBegin([m EXCEPT !.currentVideoFile = input,
                                 !.isPlaylist = isM3U8(input),
                                 !.segmentPaths = <<>>])
      r  == setupPaths(input)
  IN IF ~r.ok THEN [pm |-> m1, ret |-> FALSE]
     ELSE LET m2 == setupInit(setupParser(
                       [m1 EXCEPT !.segmentPaths = r.paths], r.paths))
          IN [pm |-> m2, ret |-> TRUE]
pmInitialize(m, input) ==
  LET m1 == setupBegin([m EXCEPT !.currentVideoFile = input,
                                 !.isPlaylist = isM3U8(input),
                                 !.segmentPaths = <<>>])
      r  == setupPaths(input)
  IN IF ~r.ok THEN [pm |-> m1, ret |-> FALSE]
     ELSE LET m2 == setupInit(setupParser(
                       [m1 EXCEPT !.segmentPaths = r.paths], r.paths))
          IN [pm |-> m2, ret |-> m2.currentParser.ok]

\* preloadNewPlaylist, publication under the lock
\* (variant: the move of tempPaths is forgotten)
publishPathsDropped(m, tempPaths) == m
publishPaths(m, tempPaths) == [m EXCEPT !.newSegmentPaths = tempPaths]
\* (variant: the source is published as the active one as well)
publishReadyActive(m, input) ==
  [m EXCEPT !.newVideoFile = input, !.newPlaylistReady = TRUE,
            !.currentVideoFile = input]
publishReady(m, input) ==
  [m EXCEPT !.newVideoFile = input, !.newPlaylistReady = TRUE]

\* switchToNewPlaylist up to the reset of the demuxer
\* (variant: the newPlaylistReady_ test is missing)
switchApplyUnchecked(m) ==
  [m EXCEPT !.segmentPaths = m.newSegmentPaths,
            !.newSegmentPaths = <<>>,
            !.currentVideoFile = m.newVideoFile,
            !.currentSegmentIndex = 0,
            !.newPlaylistReady = FALSE,
            !.currentParser =
               IF m.newSegmentPaths # <<>>
                 THEN HelperTsH264FileParser(m.newSegmentPaths[1])
                 ELSE @]
\* (variant: currentSegmentIndex_ is not reset)
switchApplyKeepIndex(m) ==
  IF ~m.newPlaylistReady THEN m
  ELSE [m EXCEPT !.segmentPaths = m.newSegmentPaths,
                 !.newSegmentPaths = <<>>,
                 !.currentVideoFile = m.newVideoFile,
                 !.newPlaylistReady = FALSE,
                 !.currentParser =
                    IF m.newSegmentPaths # <<>>
                      THEN HelperTsH264FileParser(m.newSegmentPaths[1])
                      ELSE @]
switchApply(m) ==
  IF ~m.newPlaylistReady THEN m
  ELSE [m EXCEPT !.segmentPaths = m.newSegmentPaths,
                 !.newSegmentPaths = <<>>,
                 !.currentVideoFile = m.newVideoFile,
                 !.currentSegmentIndex = 0,
                 !.newPlaylistReady = FALSE,
                 !.currentParser =
                    IF m.newSegmentPaths # <<>>
                      THEN HelperTsH264FileParser(m.newSegmentPaths[1])
                      ELSE @]

\* PlaylistManager::getNextFrame, the body under the lock
\* (variant: no read after the advance to the next segment)
getNextFrameNoRetry(m) ==
  IF m.currentParser = NullParser THEN [pm |-> m, frame |-> NoFrame]
  ELSE
    LET r1 == getH264Frame(m.currentParser) IN
    IF r1.frame # NoFrame
      THEN [pm |-> [m EXCEPT !.currentParser = r1.parser], frame |-> r1.frame]
    ELSE IF m.isPlaylist /\ Len(m.segmentPaths) > 1
      THEN LET idx == (m.currentSegmentIndex + 1) % Len(m.segmentPaths)
               m1  == [m EXCEPT !.currentSegmentIndex = idx,
                                !.currentParser = initialize(
                                   HelperTsH264FileParser(m.segmentPaths[idx + 1]))]
           IN [pm |-> m1, frame |-> NoFrame]
    ELSE LET r2 == getH264Frame(setFileParseRestart(r1.parser))
         IN [pm |-> [m EXCEPT !.currentParser = r2.parser], frame |-> r2.frame]
getNextFrame(m) ==
  IF m.currentParser = NullParser THEN [pm |-> m, frame |-> NoFrame]
  ELSE
    LET r1 == getH264Frame(m.currentParser) IN
    IF r1.frame # NoFrame
      THEN [pm |-> [m EXCEPT !.currentParser = r1.parser], frame |-> r1.frame]
    ELSE IF m.isPlaylist /\ Len(m.segmentPaths) > 1
      THEN LET idx == (m.currentSegmentIndex + 1) % Len(m.segmentPaths)
               m1  == [m EXCEPT !.currentSegmentIndex = idx,
                                !.currentParser = initialize(
                                   HelperTsH264FileParser(m.segmentPaths[idx + 1]))]
           IN IF m1.currentParser.ok
                THEN LET r2 == getH264Frame(m1.currentParser)
                     IN [pm |-> [m1 EXCEPT !.currentParser = r2.parser],
                         frame |-> r2.frame]
                ELSE [pm |-> m1, frame |-> NoFrame]
    ELSE LET r2 == getH264Frame(setFileParseRestart(r1.parser))
         IN [pm |-> [m EXCEPT !.currentParser = r2.parser], frame |-> r2.frame]

\* the fields a preload is documented not to touch before it publishes
ActiveFields(m) ==
  <<m.segmentPaths, m.currentSegmentIndex, m.currentParser,
    m.currentVideoFile>>
PendingFields(m) ==
  <<m.newSegmentPaths, m.newVideoFile, m.newPlaylistReady>>

\* ------------------------------------------------------------------ state
VARIABLES
  mainpc,              \* main: "init", "run" (threads may run), "failed"
  pm,                  \* the PlaylistManager object
  mutex,               \* PlaylistManager::mutex_: "free", "send", "preload"
  commands,            \* CommandQueue::commands_
  exitFlag,            \* the process-wide atomic exitFlag
  rpc,                 \* processStdinCommands: "idle", "getline", "done"
  nread,               \* lines read from stdin so far
  spc,                 \* SampleSendVideoH264Task: position in the loop
  pendingVideoSwitch,  \* local of the send loop
  switchRequested,     \* local of the send loop
  switchRet,           \* value of the last switchToNewPlaylist() call
  frame,               \* h264Frame of the current iteration
  ppc,                 \* position of each preload thread
  psrc,                \* input of each preload thread
  tempPaths,           \* tempPaths of each preload thread
  crashed,             \* the process died on a racy use of currentParser_
  lastSent,            \* the last access unit handed to sendOneH264Frame
                       \* since the active source was installed
  nPreloads,           \* preload threads started so far
  nFailed,             \* preloadNewPlaylist calls that returned false
  dirty,               \* running preload threads that have changed a
                       \* manager field outside their publication
  pushed,              \* CommandQueue exercised alone: commands pushed so far
  popped,              \* ... commands returned by pop so far
  popRet,              \* ... value of the last pop call
  m3u8File,            \* M3U8Parser exercised alone: the document
  baseUrl,             \* ... the base URL handed to parseM3U8
  m3u8Ret,             \* ... outcome of parseM3U8 and segments_
  tsFile,              \* demuxer exercised alone: the file it is opened on
  tsParser,            \* ... size_, offset_, video_pid_
  tsRet,               \* ... outcome of the last call
  tsFrames,            \* ... frames returned in the current pass
  tsPasses,            \* ... frames of the passes completed
  cache,               \* remote set-up exercised alone: the files under
                       \* CACHE_BASE_PATH, path |-> content
  fetchLog,            \* ... the curl transfers run so far
  nSetups,             \* ... internalSetupPlaylist calls made so far
  setupRet,            \* ... value of the last call
  processes,           \* ProcessManager.processes, in insertion order
  response,            \* the response of the last API request
  spawned,             \* child processes spawned so far
  sendArg,             \* sendOneH264Frame exercised alone: the access
                       \* unit and the clock reading (ms since the epoch)
  sentImage            \* ... the buffer handed to sendEncodedVideoImage

queueVars   == <<pushed, popped, popRet>>
m3u8Vars    == <<m3u8File, baseUrl, m3u8Ret>>
tsVars      == <<tsFile, tsParser, tsRet, tsFrames, tsPasses>>
cacheVars   == <<cache, fetchLog, nSetups, setupRet>>
apiVars     == <<processes, response, spawned>>
senderVars  == <<sendArg, sentImage>>
harnessVars == <<queueVars, m3u8Vars, tsVars, cacheVars, apiVars, senderVars>>

vars == <<mainpc, pm, mutex, commands, exitFlag, rpc, nread, spc,
          pendingVideoSwitch, switchRequested, switchRet, frame,
          ppc, psrc, tempPaths, crashed, lastSent, nPreloads, nFailed,
          dirty, harnessVars>>

mainVars    == <<mainpc>>
readerVars  == <<rpc, nread>>
sendVars    == <<spc, pendingVideoSwitch, switchRequested, switchRet, frame>>
preloadVars == <<ppc, psrc, tempPaths, dirty>>
ghostVars   == <<lastSent, nPreloads, nFailed>>

Preloads == 1..MaxLines

\* struct Command
ExitCmd == [type |-> "EXIT", data |-> ""]
SwitchCmd(src) == [type |-> "SWITCH_VIDEO", data |-> src]

\* the lines stdin may deliver, as <<command word, rest of the line>>: EXIT,
\* SWITCH_VIDEO: with a source, SWITCH_VIDEO: with nothing behind it, the
\* empty line and a line that is no command
Lines ==
  {<<"EXIT", "">>} \cup {<<"SWITCH_VIDEO:", s>> : s \in SwitchSources}
    \cup {<<"SWITCH_VIDEO:", "">>, <<"", "">>, <<"PAUSE", "">>}

\* the components exercised alone are at rest while the engine runs
QueueIdle == pushed = <<>> /\ popped = <<>> /\ popRet = "none"

NotParsed == [status |-> "none", segments |-> <<>>]
M3U8Idle ==
  /\ m3u8File = [open |-> FALSE, lines |-> <<>>]
  /\ baseUrl = <<>>
  /\ m3u8Ret = NotParsed

\* sizeof(au_buf), the static scratch array of _readOnePes
AU_BUF_SIZE == 1048576
\* the demuxer before initialize; au_buf is the capacity of the scratch array
NewTsParser ==
  [size |-> 0, offset |-> 0, video_pid |-> 0, au_buf |-> AU_BUF_SIZE]
NoInject == [at |-> -1, len |-> 0]
TsIdle ==
  /\ tsFile = [data |-> <<>>, declared |-> {}, inject |-> NoInject]
  /\ tsParser = NewTsParser
  /\ tsRet = "none"
  /\ tsFrames = <<>>
  /\ tsPasses = <<>>

CacheIdle ==
  /\ cache = <<>>
  /\ fetchLog = <<>>
  /\ nSetups = 0
  /\ setupRet = "none"

EngineInit ==
  /\ mainpc = "init"
  /\ pm = NewManager
  /\ mutex = "free"
  /\ commands = <<>>
  /\ exitFlag = FALSE
  /\ rpc = "idle"
  /\ nread = 0
  /\ spc = "idle"
  /\ pendingVideoSwitch = ""
  /\ switchRequested = FALSE
  /\ switchRet = "none"
  /\ frame = NoFrame
  /\ ppc = [p \in Preloads |-> "idle"]
  /\ psrc = [p \in Preloads |-> ""]
  /\ tempPaths = [p \in Preloads |-> <<>>]
  /\ crashed = FALSE
  /\ lastSent = NoFrame
  /\ nPreloads = 0
  /\ nFailed = 0
  /\ dirty = {}

NoResponse == [status |-> 0, error |-> <<>>, details |-> <<>>]
ApiIdle ==
  /\ processes = <<>>
  /\ response = NoResponse
  /\ spawned = 0
SenderIdle ==
  /\ sendArg = [buffer |-> <<>>, order |-> "little",
                millis |-> [secs |-> 0, ms |-> 0]]
  /\ sentImage = <<>>
Init ==
  /\ EngineInit /\ QueueIdle /\ M3U8Idle /\ TsIdle /\ CacheIdle
  /\ ApiIdle /\ SenderIdle

\* ------------------------------------------------------------------- main
\* main: playlistManager.initialize(options.videoFile); on success the
\* command thread is started, on failure main returns -1
Initialize(input) ==
  /\ mainpc = "init"
  /\ LET r == pmInitialize(pm, input) IN
       /\ pm' = r.pm
       /\ mainpc' = IF r.ret THEN "run" ELSE "failed"
       /\ rpc' = IF ~r.ret THEN rpc
                 ELSE IF exitFlag THEN "done" ELSE "getline"
  /\ UNCHANGED <<mutex, commands, exitFlag, nread, sendVars, preloadVars,
                 crashed, harnessVars, ghostVars>>

\* SignalHandler, installed by main for SIGQUIT, SIGABRT and SIGINT before
\* the manager is initialized: exitFlag = true
SignalHandler ==
  /\ mainpc \in {"init", "run"} /\ ~exitFlag /\ ~crashed
  /\ exitFlag' = TRUE
  /\ UNCHANGED <<mainpc, pm, mutex, commands, readerVars, sendVars,
                 preloadVars, crashed, harnessVars, ghostVars>>

\* main: std::thread sendVideoThread(SampleSendVideoH264Task, ...)
StartSend ==
  /\ mainpc = "run" /\ spc = "idle" /\ ~crashed
  /\ spc' = "pop"
  /\ UNCHANGED <<mainpc, pm, mutex, commands, exitFlag, readerVars,
                 pendingVideoSwitch, switchRequested, switchRet, frame,
                 preloadVars, crashed, harnessVars, ghostVars>>

\* --------------------------------------------------------- command reader
\* CommandQueue::push
push(q, cmd) == Append(q, cmd)

\* the command a line enqueues, or none
\* (variant: the videoFile.empty() test is missing)
lineCommandLax(line) ==
  IF line = <<"EXIT", "">> THEN <<ExitCmd>>
  ELSE IF line[1] = "SWITCH_VIDEO:" THEN <<SwitchCmd(line[2])>>
  ELSE <<>>
lineCommand(line) ==
  IF line = <<"EXIT", "">> THEN <<ExitCmd>>
  ELSE IF line[1] = "SWITCH_VIDEO:" /\ line[2] # "" THEN <<SwitchCmd(line[2])>>
  ELSE <<>>

\* processStdinCommands: std::getline delivers a line; the line is handled
\* and the loop condition !exitFlag is evaluated before the next getline.
\* The supervisor keeps the pipe open: getline blocks when no line comes.
ReaderLine(line) ==
  /\ rpc = "getline" /\ ~crashed
  /\ nread < MaxLines
  /\ nread' = nread + 1
  /\ commands' = commands \o lineCommand(line)
  /\ rpc' = IF line = <<"EXIT", "">> \/ exitFlag THEN "done" ELSE "getline"
  /\ UNCHANGED <<mainpc, pm, mutex, exitFlag, sendVars, preloadVars,
                 crashed, harnessVars, ghostVars>>

\* -------------------------------------------------------------- send loop
afterCommands(req) == IF req THEN "sw" ELSE "get"

\* while (!exitFlag) fails
SendExit ==
  /\ spc = "pop" /\ exitFlag /\ ~crashed
  /\ spc' = "done"
  /\ frame' = NoFrame
  /\ switchRet' = "none"
  /\ UNCHANGED <<mainpc, pm, mutex, commands, exitFlag, readerVars,
                 pendingVideoSwitch, switchRequested, preloadVars, crashed, harnessVars,
                 ghostVars>>

\* commandQueue.pop(cmd, 1) times out on an empty queue
PopTimeout ==
  /\ spc = "pop" /\ ~exitFlag /\ ~crashed
  /\ commands = <<>>
  /\ spc' = afterCommands(switchRequested)
  /\ frame' = NoFrame
  /\ switchRet' = "none"
  /\ UNCHANGED <<mainpc, pm, mutex, commands, exitFlag, readerVars,
                 pendingVideoSwitch, switchRequested, preloadVars, crashed, harnessVars,
                 ghostVars>>

\* commandQueue.pop(cmd, 1) returns EXIT
PopExit ==
  /\ spc = "pop" /\ ~exitFlag /\ ~crashed
  /\ commands # <<>> /\ Head(commands).type = "EXIT"
  /\ commands' = Tail(commands)
  /\ exitFlag' = TRUE
  /\ spc' = afterCommands(switchRequested)
  /\ frame' = NoFrame
  /\ switchRet' = "none"
  /\ UNCHANGED <<mainpc, pm, mutex, readerVars, pendingVideoSwitch,
                 switchRequested, preloadVars, crashed, harnessVars, ghostVars>>

\* commandQueue.pop(cmd, 1) returns SWITCH_VIDEO: a detached thread is
\* started on preloadNewPlaylist(cmd.data)
PopSwitch ==
  /\ spc = "pop" /\ ~exitFlag /\ ~crashed
  /\ commands # <<>> /\ Head(commands).type = "SWITCH_VIDEO"
  /\ commands' = Tail(commands)
  /\ pendingVideoSwitch' = Head(commands).data
  /\ switchRequested' = TRUE
  /\ LET p == CHOOSE q \in Preloads :
                 ppc[q] = "idle" /\ \A o \in Preloads : o < q => ppc[o] # "idle"
     IN /\ ppc' = [ppc EXCEPT ![p] = "start"]
        /\ psrc' = [psrc EXCEPT ![p] = Head(commands).data]
  /\ nPreloads' = nPreloads + 1
  /\ spc' = "sw"
  /\ frame' = NoFrame
  /\ switchRet' = "none"
  /\ UNCHANGED <<mainpc, pm, mutex, exitFlag, readerVars, tempPaths, dirty,
                 crashed, harnessVars, lastSent, nFailed>>

\* switchToNewPlaylist with newPlaylistReady_ false: lock, return false
SwitchNotReady ==
  /\ spc = "sw" /\ ~crashed
  /\ mutex = "free"
  /\ ~pm.newPlaylistReady
  /\ pm' = switchApply(pm)
  /\ switchRet' = "false"
  /\ spc' = "get"
  /\ UNCHANGED <<mainpc, mutex, commands, exitFlag, readerVars,
                 pendingVideoSwitch, switchRequested, frame, preloadVars,
                 crashed, harnessVars, ghostVars>>

\* switchToNewPlaylist with newPlaylistReady_ true: lock, the pending
\* playlist is made the active one and a demuxer is created on its first
\* segment (with no segment: return false)
SwitchApply ==
  /\ spc = "sw" /\ ~crashed
  /\ mutex = "free"
  /\ pm.newPlaylistReady
  /\ pm' = switchApply(pm)
  /\ lastSent' = NoFrame
  /\ IF pm'.segmentPaths # <<>>
       THEN /\ spc' = "sw_init"
            /\ mutex' = "send"
            /\ UNCHANGED switchRet
       ELSE /\ spc' = "get"
            /\ mutex' = "free"
            /\ switchRet' = "false"
  /\ UNCHANGED <<mainpc, commands, exitFlag, readerVars, pendingVideoSwitch,
                 switchRequested, frame, preloadVars, crashed, harnessVars, nPreloads,
                 nFailed>>

\* switchToNewPlaylist: return currentParser_->initialize(), unlock; in the
\* send loop a true result clears switchRequested and pendingVideoSwitch
SwitchInit ==
  /\ spc = "sw_init" /\ ~crashed
  /\ pm' = setupInit(pm)
  /\ switchRet' = IF pm'.currentParser.ok THEN "true" ELSE "false"
  /\ switchRequested' = ~pm'.currentParser.ok
  /\ pendingVideoSwitch' = IF pm'.currentParser.ok THEN "" ELSE pendingVideoSwitch
  /\ mutex' = "free"
  /\ spc' = "get"
  /\ UNCHANGED <<mainpc, commands, exitFlag, readerVars, frame, preloadVars,
                 crashed, harnessVars, ghostVars>>

\* _readOnePes on a demuxer whose initialize() stopped at the failure of
\* mmap(): offset_ + TS_PKT_SIZE <= size_ holds and p = data_ + offset_ is
\* read with data_ = nullptr.  (No demuxer on such a file is ever visible
\* to getNextFrame between its construction and its initialize().)
readsNull(p) == p.file \in UnmappableFiles /\ ~p.ok

\* getNextFrame calls currentParser_->getH264Frame() on such a demuxer: the
\* read of address 0 kills the process
GetFrameNull ==
  /\ spc = "get" /\ ~crashed
  /\ mutex = "free"
  /\ readsNull(pm.currentParser)
  /\ crashed' = TRUE
  /\ UNCHANGED <<mainpc, pm, mutex, commands, exitFlag, readerVars, sendVars,
                 preloadVars, ghostVars, harnessVars>>

\* getNextFrame under the lock, and the hand-over of the frame to
\* sendOneH264Frame
GetFrame ==
  /\ spc = "get" /\ ~crashed
  /\ mutex = "free"
  /\ ~readsNull(pm.currentParser)
  /\ LET r == getNextFrame(pm) IN
       /\ pm' = r.pm
       /\ frame' = r.frame
       /\ lastSent' = IF r.frame # NoFrame THEN r.frame ELSE lastSent
  /\ spc' = "pop"
  /\ UNCHANGED <<mainpc, mutex, commands, exitFlag, readerVars,
                 pendingVideoSwitch, switchRequested, switchRet, preloadVars,
                 crashed, harnessVars, nPreloads, nFailed>>

\* --------------------------------------------------------- preload threads
touched(p, m1, m2) ==
  IF ActiveFields(m1) # ActiveFields(m2) \/ PendingFields(m1) # PendingFields(m2)
    THEN dirty \cup {p} ELSE dirty

\* the detached thread returns: nothing of it remains
threadEnd(p) ==
  /\ ppc' = [ppc EXCEPT ![p] = "idle"]
  /\ psrc' = [psrc EXCEPT ![p] = ""]
  /\ tempPaths' = [tempPaths EXCEPT ![p] = <<>>]
  /\ dirty' = dirty \ {p}

\* preloadNewPlaylist -> internalSetup*: isPlaylist = ..., paths.clear(),
\* currentSegmentIndex_ = 0 (and paths.push_back(path) for a single file)
\* (variant: preloadNewPlaylist takes the lock on entry)
PreloadBeginLocked(p) ==
  /\ ppc[p] = "start" /\ ~crashed
  /\ pm' = setupBegin(pm)
  /\ dirty' = touched(p, pm, pm')
  /\ IF isM3U8(psrc[p])
       THEN /\ ppc' = [ppc EXCEPT ![p] = "fetch"]
            /\ UNCHANGED tempPaths
       ELSE /\ ppc' = [ppc EXCEPT ![p] = "reset"]
            /\ tempPaths' = [tempPaths EXCEPT ![p] = setupPaths(psrc[p]).paths]
  /\ mutex = "free" /\ mutex' = "preload"
  /\ UNCHANGED <<mainpc, commands, exitFlag, readerVars, sendVars,
                 psrc, crashed, harnessVars, ghostVars>>
PreloadBegin(p) ==
  /\ ppc[p] = "start" /\ ~crashed
  /\ pm' = setupBegin(pm)
  /\ dirty' = touched(p, pm, pm')
  /\ IF isM3U8(psrc[p])
       THEN /\ ppc' = [ppc EXCEPT ![p] = "fetch"]
            /\ UNCHANGED tempPaths
       ELSE /\ ppc' = [ppc EXCEPT ![p] = "reset"]
            /\ tempPaths' = [tempPaths EXCEPT ![p] = setupPaths(psrc[p]).paths]
  /\ UNCHANGED <<mainpc, mutex, commands, exitFlag, readerVars, sendVars,
                 psrc, crashed, harnessVars, ghostVars>>

\* internalSetupPlaylist: download, parse, build the segment paths; a
\* failure makes preloadNewPlaylist return false
PreloadFetch(p) ==
  /\ ppc[p] = "fetch" /\ ~crashed
  /\ LET r == setupPaths(psrc[p]) IN
       IF r.ok /\ r.paths # <<>>
         THEN /\ tempPaths' = [tempPaths EXCEPT ![p] = r.paths]
              /\ ppc' = [ppc EXCEPT ![p] = "reset"]
              /\ UNCHANGED <<psrc, dirty, nFailed>>
         ELSE /\ threadEnd(p)
              /\ nFailed' = nFailed + 1
  /\ UNCHANGED <<mainpc, pm, mutex, commands, exitFlag, readerVars, sendVars,
                 crashed, harnessVars, lastSent, nPreloads>>

\* internalSetup*: currentParser_.reset(new HelperTsH264FileParser(paths[0]))
PreloadReset(p) ==
  /\ ppc[p] = "reset" /\ ~crashed
  /\ pm' = setupParser(pm, tempPaths[p])
  /\ dirty' = touched(p, pm, pm')
  /\ ppc' = [ppc EXCEPT ![p] = "init"]
  /\ UNCHANGED <<mainpc, mutex, commands, exitFlag, readerVars, sendVars,
                 psrc, tempPaths, crashed, harnessVars, ghostVars>>

\* internalSetup*: return currentParser_->initialize(); a false result makes
\* preloadNewPlaylist return false
PreloadInit(p) ==
  /\ ppc[p] = "init" /\ ~crashed
  /\ pm' = setupInit(pm)
  /\ IF pm'.currentParser.ok
       THEN /\ ppc' = [ppc EXCEPT ![p] = "publish"]
            /\ dirty' = touched(p, pm, pm')
            /\ UNCHANGED <<psrc, tempPaths, nFailed>>
       ELSE /\ threadEnd(p)
            /\ nFailed' = nFailed + 1
  /\ UNCHANGED <<mainpc, mutex, commands, exitFlag, readerVars, sendVars,
                 crashed, harnessVars, lastSent, nPreloads>>

\* preloadNewPlaylist: lock, newSegmentPaths_ = std::move(tempPaths)
PreloadLock(p) ==
  /\ ppc[p] = "publish" /\ ~crashed
  /\ mutex = "free"
  /\ mutex' = "preload"
  /\ pm' = publishPaths(pm, tempPaths[p])
  /\ tempPaths' = [tempPaths EXCEPT ![p] = <<>>]
  /\ ppc' = [ppc EXCEPT ![p] = "publish2"]
  /\ UNCHANGED <<mainpc, commands, exitFlag, readerVars, sendVars, psrc,
                 dirty, crashed, harnessVars, ghostVars>>

\* preloadNewPlaylist: newVideoFile_ = input, newPlaylistReady_ = true,
\* unlock, return true
PreloadPublish(p) ==
  /\ ppc[p] = "publish2" /\ ~crashed
  /\ pm' = publishReady(pm, psrc[p])
  /\ mutex' = "free"
  /\ threadEnd(p)
  /\ UNCHANGED <<mainpc, commands, exitFlag, readerVars, sendVars, crashed,
                 harnessVars,
                 ghostVars>>

\* a preload thread writes currentParser_ without the lock while the send
\* loop uses the demuxer in getNextFrame or switchToNewPlaylist, or while
\* another preload thread writes it: the accesses are unordered, and one
\* outcome of the race is a use after free that kills the process
RaceCrash(p) ==
  /\ ppc[p] \in {"reset", "init"} /\ ~crashed
  /\ \/ spc \in {"get", "sw_init"}
     \/ \E q \in Preloads \ {p} : ppc[q] \in {"reset", "init"}
  /\ crashed' = TRUE
  /\ UNCHANGED <<mainpc, pm, mutex, commands, exitFlag, readerVars, sendVars,
                 preloadVars, ghostVars, harnessVars>>

\* ---------------------------------------------------------- specification
SendNext ==
  \/ SendExit \/ PopTimeout \/ PopExit \/ PopSwitch
  \/ SwitchNotReady \/ SwitchApply \/ SwitchInit
  \/ GetFrame

PreloadNext(p) ==
  \/ PreloadBegin(p) \/ PreloadFetch(p) \/ PreloadReset(p)
  \/ PreloadInit(p) \/ PreloadLock(p) \/ PreloadPublish(p)

Next ==
  \/ \E input \in InitialSources : Initialize(input)
  \/ StartSend
  \/ \E line \in Lines : ReaderLine(line)
  \/ SendNext
  \/ \E p \in Preloads : PreloadNext(p)
  \/ \E p \in Preloads : RaceCrash(p)

Spec == Init /\ [][Next]_vars

\* the send loop and every preload thread keep being scheduled
FairSpec ==
  /\ Spec
  /\ WF_vars(StartSend)
  /\ WF_vars(SendNext)
  /\ \A p \in Preloads : WF_vars(PreloadNext(p))

\* the engine started on a playlist whose second segment does not initialize
BadSegmentNext ==
  \/ \E input \in BadSegmentSources : Initialize(input)
  \/ StartSend
  \/ \E line \in Lines : ReaderLine(line)
  \/ SendNext
  \/ GetFrameNull
  \/ \E p \in Preloads : PreloadNext(p)
  \/ \E p \in Preloads : RaceCrash(p)

BadSegmentSpec ==
  /\ Init /\ [][BadSegmentNext]_vars
  /\ WF_vars(StartSend)
  /\ WF_vars(SendNext \/ GetFrameNull)
  /\ \A p \in Preloads : WF_vars(PreloadNext(p))

\* the send loop keeps being scheduled; a preload thread may stay in any of
\* its steps for ever (a download that never completes)
StuckSpec ==
  /\ Spec
  /\ WF_vars(StartSend)
  /\ WF_vars(SendNext)

\* the engine with the signals main installs a handler for
SignalNext == Next \/ SignalHandler

SignalSpec ==
  /\ Init /\ [][SignalNext]_vars
  /\ WF_vars(StartSend)
  /\ WF_vars(SendNext)
  /\ \A p \in Preloads : WF_vars(PreloadNext(p))

TypeOK ==
  /\ mainpc \in {"init", "run", "failed"}
  /\ mutex \in {"free", "send", "preload"}
  /\ exitFlag \in BOOLEAN
  /\ spc \in {"idle", "pop", "sw", "sw_init", "get", "done"}
  /\ \A p \in Preloads :
       ppc[p] \in {"idle", "start", "fetch", "reset", "init", "publish",
                   "publish2"}

\* ------------------------------------------------- the command queue alone
\* commands pushed while the queue is exercised alone
MaxPush == 3

\* every engine variable but the queue
engineRest == <<mainpc, pm, mutex, exitFlag, readerVars, sendVars,
                preloadVars, crashed, ghostVars>>

\* CommandQueue::pop under the queue's mutex: wait_for returns true with a
\* non-empty queue (front is copied to cmd and removed), false on a timeout
\* with the queue still empty (cmd is left alone)
\* (variant: the front is copied but not removed)
popKeepFront(q, cmd) ==
  IF q # <<>> THEN [ret |-> TRUE, cmd |-> Head(q), q |-> q]
  ELSE [ret |-> FALSE, cmd |-> cmd, q |-> q]
pop(q, cmd) ==
  IF q # <<>> THEN [ret |-> TRUE, cmd |-> Head(q), q |-> Tail(q)]
  ELSE [ret |-> FALSE, cmd |-> cmd, q |-> q]

\* a producer calls commandQueue.push(cmd)
QueuePush(cmd) ==
  /\ Len(pushed) < MaxPush
  /\ commands' = push(commands, cmd)
  /\ pushed' = Append(pushed, cmd)
  /\ UNCHANGED <<popped, popRet, engineRest, m3u8Vars, tsVars, cacheVars,
                 apiVars, senderVars>>

\* the consumer calls commandQueue.pop(cmd, 1) and the call returns
QueuePop ==
  /\ LET r == pop(commands, ExitCmd) IN
       /\ commands' = r.q
       /\ popRet' = IF r.ret THEN "true" ELSE "false"
       /\ popped' = IF r.ret THEN Append(popped, r.cmd) ELSE popped
  /\ UNCHANGED <<pushed, engineRest, m3u8Vars, tsVars, cacheVars, apiVars,
                 senderVars>>

QueueNext ==
  \/ \E line \in Lines : \E c \in Range(lineCommand(line)) : QueuePush(c)
  \/ QueuePop

QueueSpec == Init /\ [][QueueNext]_vars

\* ------------------------------------------------- the M3U8 parser alone
\* lines of the documents parsed while the parser is exercised alone
MaxDocLines == 3

\* a std::string is the sequence of its characters
EXTINF == <<"#", "E", "X", "T", "I", "N", "F", ":">>
HTTP   == <<"h", "t", "t", "p", ":", "/", "/">>
HTTPS  == <<"h", "t", "t", "p", "s", ":", "/", "/">>

\* the lines a document is made of, as std::getline delivers them: empty,
\* "\r", #EXTM3U, #EXTINF:2, / #EXTINF:7,t\r / #EXTINF:5 (no comma) /
\* #EXTINF:x, (no number), a.ts, b.ts\r, http://h/c.ts
DocLines ==
  {<<>>,
   <<"\r">>,
   <<"#", "E", "X", "T", "M", "3", "U">>,
   <<"#", "E", "X", "T", "I", "N", "F", ":", "2", ",">>,
   <<"#", "E", "X", "T", "I", "N", "F", ":", "7", ",", "t", "\r">>,
   <<"#", "E", "X", "T", "I", "N", "F", ":", "5">>,
   <<"#", "E", "X", "T", "I", "N", "F", ":", "x", ",">>,
   <<"a", ".", "t", "s">>,
   <<"b", ".", "t", "s", "\r">>,
   <<"h", "t", "t", "p", ":", "/", "/", "h", "/", "c", ".", "t", "s">>}

SeqsUpTo(S, n) == UNION {[1..k -> S] : k \in 0..n}

\* the documents: one that cannot be opened, and every sequence of lines
Docs ==
  {[open |-> FALSE, lines |-> <<>>]}
    \cup {[open |-> TRUE, lines |-> l] : l \in SeqsUpTo(DocLines, MaxDocLines)}

BaseUrls == {<<>>, <<"d", "/">>}

\* std::string::find(prefix) == 0
startsWith(str, prefix) ==
  /\ Len(str) >= Len(prefix)
  /\ SubSeq(str, 1, Len(prefix)) = prefix

\* std::string::find(c): the 0-based position of the first c, or npos (-1)
find(str, c) ==
  IF \E i \in 1..Len(str) : str[i] = c
    THEN (CHOOSE i \in 1..Len(str) :
            str[i] = c /\ \A j \in 1..(i - 1) : str[j] # c) - 1
    ELSE -1

\* std::string::substr(pos, len), for pos <= size
substr(str, pos, len) ==
  SubSeq(str, pos + 1, IF pos + len > Len(str) THEN Len(str) ELSE pos + len)

\* the decimal digits
Digits == {"0", "1", "2", "3", "4", "5", "6", "7", "8", "9"}
digitVal(c) ==
  CASE c = "0" -> 0 [] c = "1" -> 1 [] c = "2" -> 2 [] c = "3" -> 3
    [] c = "4" -> 4 [] c = "5" -> 5 [] c = "6" -> 6 [] c = "7" -> 7
    [] c = "8" -> 8 [] c = "9" -> 9

\* std::stod on a string of digits and letters: the value of the longest
\* prefix of digits; std::invalid_argument with no digit in front
RECURSIVE digitsValue(_, _)
digitsValue(str, acc) ==
  IF str = <<>> \/ Head(str) \notin Digits THEN acc
  ELSE digitsValue(Tail(str), 10 * acc + digitVal(Head(str)))
stod(str) ==
  IF str = <<>> \/ Head(str) \notin Digits
    THEN [thrown |-> TRUE, value |-> 0]
    ELSE [thrown |-> FALSE, value |-> digitsValue(str, 0)]

\* "Remove carriage return if present"
stripCR(line) ==
  IF line # <<>> /\ line[Len(line)] = "\r"
    THEN SubSeq(line, 1, Len(line) - 1) ELSE line

\* the while (std::getline(file, line)) loop of parseM3U8; an exception of
\* std::stod is caught nowhere: it leaves parseM3U8 and ends the process
RECURSIVE parseLines(_, _, _, _)
parseLines(lines, base, duration, segs) ==
  IF lines = <<>>
    THEN [status |-> IF segs # <<>> THEN "ok" ELSE "fail", segments |-> segs]
  ELSE
    LET line == stripCR(Head(lines)) IN
    IF line = <<>> \/ line[1] = "#"
      THEN IF startsWith(line, EXTINF)
             THEN LET colonPos == find(line, ":")
                      commaPos == find(line, ",")
                  IN IF colonPos # -1 /\ commaPos # -1
                       THEN LET d == stod(substr(line, colonPos + 1,
                                                 commaPos - colonPos - 1))
                            IN IF d.thrown
                                 THEN [status |-> "throw", segments |-> segs]
                                 ELSE parseLines(Tail(lines), base, d.value,
                                                 segs)
                       ELSE parseLines(Tail(lines), base, duration, segs)
             ELSE parseLines(Tail(lines), base, duration, segs)
      ELSE LET url == IF startsWith(line, HTTP) \/ startsWith(line, HTTPS)
                        THEN line ELSE base \o line
           IN parseLines(Tail(lines), base, 0,
                         Append(segs, [url |-> url, duration |-> duration]))

\* M3U8Parser::parseM3U8
parseM3U8(file, base) ==
  IF ~file.open THEN [status |-> "fail", segments |-> <<>>]
  ELSE parseLines(file.lines, base, 0, <<>>)

\* every variable but those of the M3U8 parser
notM3U8 == <<mainpc, pm, mutex, commands, exitFlag, readerVars, sendVars,
             preloadVars, crashed, ghostVars, queueVars, tsVars, cacheVars,
             apiVars, senderVars>>

M3U8Init ==
  /\ EngineInit /\ QueueIdle /\ TsIdle /\ CacheIdle /\ ApiIdle /\ SenderIdle
  /\ m3u8File \in Docs
  /\ baseUrl \in BaseUrls
  /\ m3u8Ret = NotParsed

\* parser.parseM3U8(m3u8Path, baseUrl)
ParseM3U8 ==
  /\ m3u8Ret = NotParsed
  /\ m3u8Ret' = parseM3U8(m3u8File, baseUrl)
  /\ UNCHANGED <<m3u8File, baseUrl, notM3U8>>

M3U8Next == ParseM3U8

M3U8Spec == M3U8Init /\ [][M3U8Next]_vars

\* ------------------------------------------ the transport-stream demuxer
\* HelperTsH264FileParser on the bytes of the mapped file: data is the
\* sequence of the bytes data_[0 .. size_ - 1], offsets count from 0
TS_PKT_SIZE == 188
TS_SYNC_BYTE == 71
kMaxDesync == 128

\* data_[o]
byte(data, o) == data[o + 1]

\* pid(p), payloadUnitStart(p), adaptFieldLen(p) for the packet at offset o
pid(data, o) == (byte(data, o + 1) % 32) * 256 + byte(data, o + 2)
payloadUnitStart(data, o) == (byte(data, o + 1) \div 64) % 2 = 1
adaptFieldLen(data, o) ==
  IF (byte(data, o + 3) \div 32) % 2 = 0 THEN 0
  ELSE LET len == byte(data, o + 4) + 1 IN IF len > 183 THEN -1 ELSE len

\* _probeProgramPids, innermost loop: the stream entries from pmt to the end
\* of the buffer; the PID of the first entry of type 0x1B, or -1
RECURSIVE pmtEntries(_, _)
pmtEntries(data, pmt) ==
  IF pmt + 5 > Len(data) THEN -1
  ELSE LET stype == byte(data, pmt)
           spid  == (byte(data, pmt + 1) % 32) * 256 + byte(data, pmt + 2)
           eslen == (byte(data, pmt + 3) % 16) * 256 + byte(data, pmt + 4)
       IN IF stype = 27 THEN spid ELSE pmtEntries(data, pmt + 5 + eslen)

\* the first index in 0..n at which a loop leaves with a result, or -1
First(n, P(_)) ==
  IF \E j \in 0..n : P(j)
    THEN CHOOSE j \in 0..n : P(j) /\ \A i \in 0..(j - 1) : ~P(i)
    ELSE -1

\* _probeProgramPids, loop over the packets that start a section on pmt_pid:
\* the result of the first packet (o2 = 188 * k) whose entries hold a 0x1B
pmtPacketResult(data, pmt_pid, o2) ==
  IF \/ byte(data, o2) # TS_SYNC_BYTE
     \/ pid(data, o2) # pmt_pid
     \/ ~payloadUnitStart(data, o2)
     \/ adaptFieldLen(data, o2) < 0
     \/ o2 + 4 + adaptFieldLen(data, o2) >= Len(data)
    THEN -1
  ELSE LET pmt  == o2 + 4 + adaptFieldLen(data, o2)
           ptr2 == byte(data, pmt)
       IN pmtEntries(data, pmt + 1 + ptr2 + 12)
pmtPackets(data, pmt_pid) ==
  LET hit(k) == pmtPacketResult(data, pmt_pid, k * TS_PKT_SIZE) # -1
      k1     == First(Len(data) \div TS_PKT_SIZE - 1, hit)
  IN IF k1 = -1 THEN -1
     ELSE pmtPacketResult(data, pmt_pid, k1 * TS_PKT_SIZE)

\* _probeProgramPids, loop over the program entries from pat to the end of
\* the buffer (pat + 4 * j): the result of the first entry with a program
\* number whose PMT packets hold a 0x1B
patEntryResult(data, pat) ==
  LET program == byte(data, pat) * 256 + byte(data, pat + 1)
      pmt_pid == (byte(data, pat + 2) % 32) * 256 + byte(data, pat + 3)
  IN IF program # 0 THEN pmtPackets(data, pmt_pid) ELSE -1
patEntries(data, pat) ==
  LET hit(j) == patEntryResult(data, pat + 4 * j) # -1
      j1     == First((Len(data) - pat) \div 4 - 1, hit)
  IN IF j1 = -1 THEN -1 ELSE patEntryResult(data, pat + 4 * j1)

\* _probeProgramPids, outer loop: the first packet that starts a PAT; the
\* PID found (return true), or -1 (return false)
RECURSIVE probeProgramPids(_, _)
probeProgramPids(data, o) ==
  IF o + TS_PKT_SIZE > Len(data) THEN -1
  ELSE IF \/ byte(data, o) # TS_SYNC_BYTE
          \/ ~(pid(data, o) = 0 /\ payloadUnitStart(data, o))
          \/ adaptFieldLen(data, o) < 0
          \/ o + 4 + adaptFieldLen(data, o) >= Len(data)
         THEN probeProgramPids(data, o + TS_PKT_SIZE)
  ELSE LET pat     == o + 4 + adaptFieldLen(data, o)
           pointer == byte(data, pat)
       IN patEntries(data, pat + 1 + pointer + 8)

\* _readOnePes, the IDR detection loop over one packet's payload
\* (pay .. pay + pay_len - 1): key after the loop.  The loop visits every
\* i with i + 5 < pay_len except the three positions after a 4-byte prefix
\* found at i, and those cannot set key otherwise than position i does
\* (i+1 tests the same NAL byte, i+2 and i+3 do not start with 00 00).
idrScan(data, pay, pay_len, key) ==
  \/ key
  \/ \E i \in 0..(pay_len - 6) :
       /\ byte(data, pay + i) = 0
       /\ byte(data, pay + i + 1) = 0
       /\ \/ /\ byte(data, pay + i + 2) = 1
             /\ byte(data, pay + i + 3) % 32 = 5
          \/ /\ byte(data, pay + i + 2) = 0
             /\ byte(data, pay + i + 3) = 1
             /\ byte(data, pay + i + 4) % 32 = 5

\* _readOnePes: the number of consecutive 188-byte slots from offset on that
\* do not start with the sync byte (the iterations that take ++desyncCnt)
\* (variant: the count never reaches kMaxDesync)
badSlotsNoAbort(data, offset) ==
  LET m == (Len(data) - offset) \div TS_PKT_SIZE
      n == IF m < kMaxDesync THEN m ELSE kMaxDesync - 1
      stop(k) == k = n \/ byte(data, offset + k * TS_PKT_SIZE) = TS_SYNC_BYTE
  IN First(n, stop)
badSlots(data, offset) ==
  LET n == (Len(data) - offset) \div TS_PKT_SIZE
      stop(k) == k = n \/ byte(data, offset + k * TS_PKT_SIZE) = TS_SYNC_BYTE
  IN First(n, stop)

\* _readOnePes, the loop over the packets from offset_ on.  au is the content
\* of au_buf[0 .. au_len - 1]; last is the offset of the last packet whose
\* payload was copied to au_buf (-1: none), kept for the claims only.
\* desyncCnt is 0 at the first slot of every run of slots without sync byte
\* (it is reset by every packet with one), so a run is taken in one step.
RECURSIVE readOnePes(_, _, _, _, _, _, _, _)
readOnePes(data, video_pid, offset, au, started, key, last, cap) ==
  IF ~(offset + TS_PKT_SIZE <= Len(data))
    THEN [au |-> au, key |-> key, offset |-> offset, last |-> last]
  ELSE IF byte(data, offset) # TS_SYNC_BYTE
    THEN IF badSlots(data, offset) >= kMaxDesync
           THEN [au |-> au, key |-> key, offset |-> Len(data), last |-> last]
           ELSE readOnePes(data, video_pid,
                           offset + badSlots(data, offset) * TS_PKT_SIZE,
                           au, started, key, last, cap)
  ELSE IF \/ pid(data, offset) # video_pid
          \/ adaptFieldLen(data, offset) < 0
          \/ TS_PKT_SIZE - 4 - adaptFieldLen(data, offset) = 0
          \/ offset + 4 + adaptFieldLen(data, offset) > Len(data)
    THEN readOnePes(data, video_pid, offset + TS_PKT_SIZE, au, started, key,
                    last, cap)
  ELSE
    LET pay0     == offset + 4 + adaptFieldLen(data, offset)
        pay_len0 == TS_PKT_SIZE - 4 - adaptFieldLen(data, offset)
        pusi     == payloadUnitStart(data, offset)
        badPes   == \/ pay_len0 < 9
                    \/ byte(data, pay0) # 0 \/ byte(data, pay0 + 1) # 0
                    \/ byte(data, pay0 + 2) # 1
                    \/ 9 + byte(data, pay0 + 8) > pay_len0
        pes_head == IF pusi THEN 9 + byte(data, pay0 + 8) ELSE 0
        pay      == pay0 + pes_head
        pay_len  == pay_len0 - pes_head
    IN IF pusi /\ started
         THEN [au |-> au, key |-> key, offset |-> offset, last |-> last]
       ELSE IF pusi /\ badPes
         THEN readOnePes(data, video_pid, offset + TS_PKT_SIZE, au, TRUE, key,
                         last, cap)
       ELSE IF Len(au) + pay_len > cap
         THEN [au |-> au, key |-> key, offset |-> offset, last |-> last]
       ELSE readOnePes(data, video_pid, offset + TS_PKT_SIZE,
                       au \o SubSeq(data, pay + 1, pay + pay_len),
                       started \/ pusi,
                       idrScan(data, pay, pay_len, key), offset, cap)

\* the demuxer object: size_ (0 until the file is mapped), offset_,
\* video_pid_; NoTsFrame is the nullptr of getH264Frame
NoTsFrame == [key |-> FALSE, buf |-> <<>>, end |-> -1, last |-> -1]

\* HelperTsH264FileParser::initialize on a file that opens
tsInitialize(data, p) ==
  LET r == probeProgramPids(data, 0)
  IN [parser |-> [size |-> Len(data), offset |-> 0,
                  video_pid |-> IF r # -1 THEN r ELSE p.video_pid,
                  au_buf |-> p.au_buf],
      ret |-> r # -1]

\* HelperTsH264FileParser::setFileParseRestart
\* (variant: the probed PID is forgotten)
tsSetFileParseRestartReprobe(p) == [p EXCEPT !.offset = 0, !.video_pid = 0]
tsSetFileParseRestart(p) == [p EXCEPT !.offset = 0]

\* HelperTsH264FileParser::getH264Frame; end and last are kept for the
\* claims: the offset after the call and the last packet copied from
\* (variant: the capacity of the scratch array is not looked at)
tsGetH264FrameNoLimit(data, p) ==
  LET r == readOnePes(SubSeq(data, 1, p.size), p.video_pid, p.offset, <<>>,
                      FALSE, FALSE, -1, Len(data))
  IN IF Len(r.au) = 0
       THEN [frame |-> NoTsFrame, parser |-> [p EXCEPT !.offset = 0]]
       ELSE [frame |-> [key |-> r.key, buf |-> r.au, end |-> r.offset,
                        last |-> r.last],
             parser |-> [p EXCEPT !.offset = r.offset]]
tsGetH264Frame(data, p) ==
  LET r == readOnePes(SubSeq(data, 1, p.size), p.video_pid, p.offset, <<>>,
                      FALSE, FALSE, -1, p.au_buf)
  IN IF Len(r.au) = 0
       THEN [frame |-> NoTsFrame, parser |-> [p EXCEPT !.offset = 0]]
       ELSE [frame |-> [key |-> r.key, buf |-> r.au, end |-> r.offset,
                        last |-> r.last],
             parser |-> [p EXCEPT !.offset = r.offset]]

\* ------------------------------------------------- transport-stream inputs
\* video / audio packets that follow the tables in the files read alone
MaxTsPackets == 3

fill(n, b) == [i \in 1..n |-> b]

\* seq with the bytes of code written over positions pos+1 .. pos+Len(code)
place(seq, pos, code) ==
  [i \in 1..Len(seq) |->
     IF i > pos /\ i <= pos + Len(code) THEN code[i - pos] ELSE seq[i]]

\* one 188-byte packet: header, adaptation field of adapt bytes (length
\* byte, flags, stuffing), payload padded with 0xFF
tsPacket(pidv, pusi, adapt, payload) ==
  <<TS_SYNC_BYTE, (IF pusi THEN 64 ELSE 0) + pidv \div 256, pidv % 256,
    IF adapt > 0 THEN 48 ELSE 16>>
    \o (IF adapt = 0 THEN <<>>
        ELSE IF adapt = 1 THEN <<0>>
        ELSE <<adapt - 1, 0>> \o fill(adapt - 2, 255))
    \o payload
    \o fill(TS_PKT_SIZE - 4 - adapt - Len(payload), 255)

\* PIDs of the inputs
Pids == [pmt |-> 256, video |-> 257, audio |-> 258, pmt2 |-> 512,
         video2 |-> 513]

CRC32 == <<42, 177, 4, 178>>

\* a PAT section listing progs (<<program_number, PMT PID>> pairs)
patEntry(e) == <<e[1] \div 256, e[1] % 256, 224 + e[2] \div 256, e[2] % 256>>
RECURSIVE flatten(_)
flatten(ss) == IF ss = <<>> THEN <<>> ELSE Head(ss) \o flatten(Tail(ss))
PAT(progs) ==
  tsPacket(0, TRUE, 0,
    <<0, 0, 176, 9 + 4 * Len(progs), 0, 1, 193, 0, 0>>
      \o flatten([i \in 1..Len(progs) |-> patEntry(progs[i])]) \o CRC32)

\* a PMT section on pmtPid: program descriptors info, then streams
\* (<<stream_type, PID>> pairs, no ES descriptors)
pmtEntry(e) == <<e[1], 224 + e[2] \div 256, e[2] % 256, 240, 0>>
PMT(pmtPid, prog, info, streams) ==
  tsPacket(pmtPid, TRUE, 0,
    <<0, 2, 176, 13 + Len(info) + 5 * Len(streams), 0, prog, 193, 0, 0,
      224 + Pids.video \div 256, Pids.video % 256, 240, Len(info)>>
      \o info
      \o flatten([i \in 1..Len(streams) |-> pmtEntry(streams[i])])
      \o CRC32)

\* a PES header with a PTS (9 + 5 bytes)
PES_HEADER == <<0, 0, 1, 224, 0, 0, 128, 128, 5, 33, 0, 1, 0, 1>>

\* video packets: the first packet of a PES (adaptation field of adapt
\* bytes, PES header, elementary-stream bytes es) and a continuation packet
videoStart(adapt, es) == tsPacket(Pids.video, TRUE, adapt, PES_HEADER \o es)
videoCont(es) == tsPacket(Pids.video, FALSE, 0, es)

\* elementary-stream bytes: n bytes b with code written at pos
esBytes(n, b, pos, code) == place(fill(n, b), pos, code)

\* NAL start codes followed by a NAL header
IDR3 == <<0, 0, 1, 101>>
IDR4 == <<0, 0, 0, 1, 101>>
NONIDR3 == <<0, 0, 1, 65>>

\* the packets the files of the elementary-stream family are made of
TsPackets ==
  { \* adaptation field of 8 bytes, 4-byte IDR start code inside the payload
    videoStart(8, esBytes(162, 17, 10, IDR4)),
    \* IDR start code and NAL header are the last 4 bytes of the payload
    videoStart(0, esBytes(170, 18, 166, IDR3)),
    \* a non-IDR slice; the payload ends with the first 2 bytes of a start
    \* code
    videoStart(0, place(esBytes(170, 19, 0, NONIDR3), 168, <<0, 0>>)),
    \* continuation that begins with the end of a start code and an IDR
    \* header
    videoCont(esBytes(184, 20, 0, <<1, 101>>)),
    \* plain continuation
    videoCont(fill(184, 21)),
    \* first packet of a PES whose adaptation field leaves 8 bytes: the PES
    \* header continues in the next packet
    tsPacket(Pids.video, TRUE, 176, SubSeq(PES_HEADER, 1, 8)),
    \* the rest of that PES header, then elementary-stream bytes
    videoCont(SubSeq(PES_HEADER, 9, 14) \o fill(178, 22)),
    \* a packet of another stream
    tsPacket(Pids.audio, TRUE, 0, PES_HEADER \o fill(170, 23)),
    \* a slot without sync byte
    fill(TS_PKT_SIZE, 0) }

\* the tables of a file with one program and one H.264 stream
TsHead ==
  PAT(<<<<1, Pids.pmt>>>>) \o PMT(Pids.pmt, 1, <<>>, <<<<27, Pids.video>>>>)


\* a file: its bytes, the PIDs its tables declare as H.264 (type 0x1B), and
\* the run of non-sync bytes put into it, if any
tsFileOf(data, declared, inject) ==
  [data |-> data, declared |-> declared, inject |-> inject]

\* elementary-stream family: the tables, then up to MaxTsPackets packets
EsFiles ==
  {tsFileOf(TsHead \o flatten(ps), {Pids.video}, NoInject) :
     ps \in SeqsUpTo(TsPackets, MaxTsPackets)}

\* table family: one or two PAT entries, program descriptors of 0, 5 or 6
\* bytes in the PMT, streams with or without H.264; two programs; no table
declaredOf(streams) ==
  {streams[i][2] : i \in {j \in 1..Len(streams) : streams[j][1] = 27}}
ProbeFiles ==
  {tsFileOf(PAT(pg) \o PMT(Pids.pmt, 1, info, st)
              \o videoStart(0, fill(170, 17)),
            declaredOf(st), NoInject) :
     pg \in {<<<<1, Pids.pmt>>>>, <<<<0, 16>>, <<1, Pids.pmt>>>>},
     info \in {<<>>, <<14, 3, 192, 0, 0>>, <<5, 4, 72, 68, 77, 86>>},
     st \in {<<<<27, Pids.video>>>>,
             <<<<15, Pids.audio>>, <<27, Pids.video>>>>,
             <<<<15, Pids.audio>>>>}}
  \cup
  {tsFileOf(PAT(<<<<1, Pids.pmt>>, <<2, Pids.pmt2>>>>)
              \o PMT(Pids.pmt, 1, <<>>, <<<<15, Pids.audio>>>>)
              \o PMT(Pids.pmt2, 2, <<>>, <<<<27, Pids.video2>>>>)
              \o tsPacket(Pids.video2, TRUE, 0, PES_HEADER \o fill(170, 17)),
            {Pids.video2}, NoInject),
   tsFileOf(videoStart(0, fill(170, 17)), {}, NoInject)}

\* desynchronisation family: a run of zero bytes after the first access
\* unit: 200 bytes inserted, 200 bytes inserted before a packet whose last
\* 12 payload bytes read as a packet header of the video PID, 200 bytes
\* written over the packets there, kMaxDesync - 1 slots and kMaxDesync slots
\* inserted
DesyncFiles ==
  LET A == videoStart(0, fill(170, 33))
      B == videoStart(0, fill(170, 34))
      C == videoStart(0, fill(170, 35))
      D == videoStart(0, fill(170, 36))
      E == videoStart(0, esBytes(170, 37, 158,
                         <<TS_SYNC_BYTE, Pids.video \div 256,
                           Pids.video % 256, 16>>))
      at == Len(TsHead \o A)
  IN {tsFileOf(TsHead \o A \o fill(200, 0) \o B \o C, {Pids.video},
               [at |-> at, len |-> 200]),
      tsFileOf(TsHead \o A \o fill(200, 0) \o E \o C, {Pids.video},
               [at |-> at, len |-> 200]),
      tsFileOf(place(TsHead \o A \o B \o C \o D, at, fill(200, 0)),
               {Pids.video}, [at |-> at, len |-> 200]),
      tsFileOf(TsHead \o A \o fill((kMaxDesync - 1) * TS_PKT_SIZE, 0) \o B,
               {Pids.video},
               [at |-> at, len |-> (kMaxDesync - 1) * TS_PKT_SIZE]),
      tsFileOf(TsHead \o A \o fill(kMaxDesync * TS_PKT_SIZE, 0) \o B,
               {Pids.video}, [at |-> at, len |-> kMaxDesync * TS_PKT_SIZE])}

TsFiles == EsFiles \cup ProbeFiles \cup DesyncFiles

\* -------------------------------------------------------- the demuxer alone
\* passes over a file (reads up to end of file) made while it is read alone
MaxPasses == 2

\* every variable but those of the demuxer read alone
notTs == <<mainpc, pm, mutex, commands, exitFlag, readerVars, sendVars,
           preloadVars, crashed, ghostVars, queueVars, m3u8Vars, cacheVars,
           apiVars, senderVars>>

TsInit ==
  /\ EngineInit /\ QueueIdle /\ M3U8Idle /\ CacheIdle /\ ApiIdle
  /\ SenderIdle
  /\ tsFile \in TsFiles
  /\ tsParser = NewTsParser
  /\ tsRet = "none"
  /\ tsFrames = <<>>
  /\ tsPasses = <<>>

\* parser.initialize() on the file
TsInitialize ==
  /\ tsRet = "none"
  /\ LET r == tsInitialize(tsFile.data, tsParser) IN
       /\ tsParser' = r.parser
       /\ tsRet' = IF r.ret THEN "init_ok" ELSE "init_fail"
  /\ UNCHANGED <<tsFile, tsFrames, tsPasses, notTs>>

\* parser.getH264Frame(): a frame, or nullptr at the end of a pass
TsGetFrame ==
  /\ tsRet \in {"init_ok", "frame", "restart"}
  /\ Len(tsPasses) < MaxPasses
  /\ LET r == tsGetH264Frame(tsFile.data, tsParser) IN
       /\ tsParser' = r.parser
       /\ IF r.frame # NoTsFrame
            THEN /\ tsFrames' = Append(tsFrames, r.frame)
                 /\ tsRet' = "frame"
                 /\ UNCHANGED tsPasses
            ELSE /\ tsPasses' = Append(tsPasses, tsFrames)
                 /\ tsFrames' = <<>>
                 /\ tsRet' = "eof"
  /\ UNCHANGED <<tsFile, notTs>>

\* getNextFrame, single file: currentParser_->setFileParseRestart() after a
\* nullptr
TsRestart ==
  /\ tsRet = "eof"
  /\ Len(tsPasses) < MaxPasses
  /\ tsParser' = tsSetFileParseRestart(tsParser)
  /\ tsRet' = "restart"
  /\ UNCHANGED <<tsFile, tsFrames, tsPasses, notTs>>

TsNext == TsInitialize \/ TsGetFrame \/ TsRestart

TsSpec == TsInit /\ [][TsNext]_vars

\* the demuxer alone with a scratch array of SmallBuf bytes, which holds two
\* packet payloads and not three (in the build the array holds 1 MiB, i.e.
\* more than 5698 payloads; the loop compares au_len + pay_len with its size
\* and uses the size nowhere else)
SmallBuf == 400

\* oversized access units: one of three packets followed by the start of the
\* next unit, and one of five packets
TruncFiles ==
  LET A == videoStart(0, fill(170, 49))
      B == videoStart(0, fill(170, 50))
      c(b) == videoCont(fill(184, b))
  IN {tsFileOf(TsHead \o A \o c(51) \o c(52) \o B, {Pids.video}, NoInject),
      tsFileOf(TsHead \o A \o c(51) \o c(52) \o c(53) \o c(54) \o B,
               {Pids.video}, NoInject)}

TruncInit ==
  /\ EngineInit /\ QueueIdle /\ M3U8Idle /\ CacheIdle /\ ApiIdle
  /\ SenderIdle
  /\ tsFile \in TsFiles \cup TruncFiles
  /\ tsParser = [NewTsParser EXCEPT !.au_buf = SmallBuf]
  /\ tsRet = "none"
  /\ tsFrames = <<>>
  /\ tsPasses = <<>>

TruncSpec == TruncInit /\ [][TsNext]_vars

\* ------------------------------------------- remote playlists and the cache
\* internalSetupPlaylist calls made while the remote set-up is exercised alone
MaxSetups == 3

\* A path or URL is the sequence of its parts between the slashes; a file of
\* the cache holds the lines of a playlist (a segment file holds none).
CACHE_BASE_PATH == <<"", "home", "ubuntu", "tscache">>

\* remote playlists: under /vba/, relative and absolute segment lines, two
\* segments of the same file name; and one outside /vba/
RemoteDocs ==
  (<<"http:", "", "h", "vba", "x", "p.m3u8">> :>
      << <<"s1.ts">>, <<"s2.ts">> >>)
  @@ (<<"https:", "", "h", "vba", "z", "r.m3u8">> :>
      << <<"s1.ts">>, <<"http:", "", "g", "o", "s1.ts">> >>)
  @@ (<<"http:", "", "h", "y", "q.m3u8">> :> << <<"t1.ts">> >>)

\* outcome of a curl transfer: done, failed with no file written, failed
\* with part of the file written
Outcomes == {"ok", "nofile", "partial"}

\* PlaylistManager::isURL
isURL(path) == Len(path) >= 2 /\ path[1] \in {"http:", "https:"} /\ path[2] = ""

\* extractCachePath: from the part after the first "/vba/" on, else the last
\* part of the URL
extractCachePath(url) ==
  LET at == {k \in 2..(Len(url) - 1) : url[k] = "vba"}
  IN IF at # {}
       THEN SubSeq(url, CHOOSE k \in at : \A j \in at : k <= j, Len(url))
     ELSE IF Len(url) > 1 THEN <<url[Len(url)]>>
     ELSE <<"default">>

\* getBaseUrl: up to and with the last slash
getBaseUrl(url) == IF Len(url) > 1 THEN SubSeq(url, 1, Len(url) - 1) ELSE url

\* the path up to the last slash
dirOf(path) == SubSeq(path, 1, Len(path) - 1)

\* fileExists
\* (variant: no file is ever found)
fileExistsNever(c, path) == FALSE
fileExists(c, path) == path \in DOMAIN c

\* createDirectoryRecursive (mkdir -p): fails when a part of the path is a
\* file
createDirectoryRecursive(c, dir) ==
  \A k \in 1..Len(dir) : SubSeq(dir, 1, k) \notin DOMAIN c

\* what a transfer that breaks off leaves of a file
partOf(content) ==
  IF content = <<>> THEN <<>> ELSE SubSeq(content, 1, Len(content) - 1)

\* downloadFile(url, outputPath) with the outcome o of the transfer; log
\* gets the transfer, with whether outputPath existed when it was started
downloadFile(c, log, path, content, o) ==
  IF ~createDirectoryRecursive(c, dirOf(path))
    THEN [cache |-> c, log |-> log, ret |-> FALSE]
  ELSE LET entry == [path |-> path, existed |-> fileExists(c, path),
                     done |-> o = "ok"]
       IN [cache |-> IF o = "ok" THEN (path :> content) @@ c
                     ELSE IF o = "partial" THEN (path :> partOf(content)) @@ c
                     ELSE c,
           log   |-> Append(log, entry),
           ret   |-> o = "ok"]

\* the segment URLs parseM3U8 builds from the lines of a document
segmentUrls(lines, baseU) ==
  [i \in 1..Len(lines) |->
     IF isURL(lines[i]) THEN lines[i] ELSE baseU \o lines[i]]

\* M3U8Parser::downloadSegments: localPath = cacheBasePath + "/" + filename,
\* the download if the file is not there; os holds the outcomes of the
\* transfers to come
RECURSIVE downloadSegments(_, _, _, _, _)
downloadSegments(c, log, urls, dir, os) ==
  IF urls = <<>> THEN [cache |-> c, log |-> log, ret |-> TRUE]
  ELSE LET url       == Head(urls)
           localPath == dir \o <<url[Len(url)]>>
       IN IF fileExists(c, localPath)
            THEN downloadSegments(c, log, Tail(urls), dir, os)
            ELSE LET r == downloadFile(c, log, localPath, <<>>, Head(os))
                 IN IF ~r.ret THEN r
                    ELSE downloadSegments(r.cache, r.log, Tail(urls), dir,
                                          Tail(os))

\* internalSetupPlaylist for a URL, up to the segment paths: the cache
\* directory, the playlist (downloaded if not cached), its parse, the
\* segments
internalSetupRemote(c, log, url, os) ==
  LET cachePath     == extractCachePath(url)
      fullCachePath == CACHE_BASE_PATH \o cachePath
      cacheDir      == CACHE_BASE_PATH \o
                         (IF Len(cachePath) > 1 THEN dirOf(cachePath)
                          ELSE cachePath)
      r1 == IF ~createDirectoryRecursive(c, dirOf(fullCachePath))
              THEN [cache |-> c, log |-> log, ret |-> FALSE]
            ELSE IF ~fileExists(c, fullCachePath)
              THEN downloadFile(c, log, fullCachePath, RemoteDocs[url],
                                Head(os))
            ELSE [cache |-> c, log |-> log, ret |-> TRUE]
      os2 == IF Len(r1.log) > Len(log) THEN Tail(os) ELSE os
  IN IF ~r1.ret THEN r1
     ELSE IF r1.cache[fullCachePath] = <<>> THEN [r1 EXCEPT !.ret = FALSE]
     ELSE downloadSegments(r1.cache, r1.log,
            segmentUrls(r1.cache[fullCachePath], getBaseUrl(url)),
            cacheDir, os2)

\* every variable but those of the remote set-up exercised alone
notCache == <<mainpc, pm, mutex, commands, exitFlag, readerVars, sendVars,
              preloadVars, crashed, ghostVars, queueVars, m3u8Vars, tsVars,
              apiVars, senderVars>>

\* one call of initialize or preloadNewPlaylist on a remote playlist, one
\* after the other
SetupRemote(url, os) ==
  /\ nSetups < MaxSetups
  /\ LET r == internalSetupRemote(cache, fetchLog, url, os) IN
       /\ cache' = r.cache
       /\ fetchLog' = r.log
       /\ setupRet' = IF r.ret THEN "true" ELSE "false"
  /\ nSetups' = nSetups + 1
  /\ UNCHANGED notCache

CacheNext ==
  \E url \in DOMAIN RemoteDocs : \E os \in [1..3 -> Outcomes] :
    SetupRemote(url, os)

CacheSpec == Init /\ [][CacheNext]_vars

\* ------------------------------------------- the process registry (API)
\* child processes spawned while the registry is exercised alone
MaxSpawns == 3

Channels == {"c1", "c2"}
Tokens == {"t1", "t2"}
\* uid || 'user123'
DefaultUid == "user123"

\* every variable but those of the registry
notApi == <<mainpc, pm, mutex, commands, exitFlag, readerVars, sendVars,
            preloadVars, crashed, ghostVars, queueVars, m3u8Vars, tsVars,
            cacheVars, senderVars>>

\* the least element of a set of indices, 0 for none: the first hit of a
\* for ... of loop over processes.values()
firstOf(S) == IF S = {} THEN 0 ELSE CHOOSE i \in S : \A j \in S : i <= j

\* ProcessManager.getProcessByChannel: index of the first entry, 0 for
\* undefined
getProcessByChannel(procs, channel) ==
  firstOf({i \in 1..Len(procs) : procs[i].channel = channel})

\* ProcessManager.findProcessByCredentials
findProcessByCredentials(procs, channel, token, uid) ==
  firstOf({i \in 1..Len(procs) :
             /\ procs[i].channel = channel
             /\ procs[i].token = token
             /\ procs[i].uid = uid})

\* the StreamingProcess built by startProcess around the spawned child; n
\* stands for Date.now() in the id (requests at least 1 ms apart).  child
\* is the state of the ChildProcess: "spawning" until its 'spawn' or
\* 'error' event has been delivered, then "alive", "failed" or "exited"
StreamingProcess(n, channel, token, uid) ==
  [id |-> <<channel, n>>, channel |-> channel, token |-> token, uid |-> uid,
   status |-> "starting", child |-> "spawning"]

\* entry i taken out of the Map
deleteAt(procs, i) ==
  [k \in 1..(Len(procs) - 1) |-> IF k < i THEN procs[k] ELSE procs[k + 1]]

\* the 'spawn' and 'error' events are emitted on the next tick, before any
\* other request is handled
NoEventDue == \A i \in 1..Len(processes) : processes[i].child # "spawning"

\* POST /api/streaming/start with channel, token and a video file, and
\* ProcessManager.startProcess.  The timer of 2 s that turns "starting" into
\* "running" finds the status already changed by 'spawn' or 'error' and
\* does nothing
StartRequest(channel, token) ==
  /\ NoEventDue
  /\ LET existing == getProcessByChannel(processes, channel) IN
       IF existing # 0 /\ processes[existing].status = "running"
         THEN /\ response' =
                   [status |-> 409,
                    error |-> <<"A process is already running for this channel">>,
                    details |-> <<>>]
              /\ UNCHANGED <<processes, spawned>>
         ELSE /\ spawned < MaxSpawns
              /\ processes' =
                   Append(processes,
                          StreamingProcess(spawned + 1, channel, token,
                                           DefaultUid))
              /\ spawned' = spawned + 1
              /\ response' = [status |-> 200, error |-> <<>>, details |-> <<>>]
  /\ UNCHANGED notApi

\* childProcess.on('spawn')
ChildSpawn(i) ==
  /\ i \in 1..Len(processes) /\ processes[i].child = "spawning"
  /\ processes' = [processes EXCEPT ![i].child = "alive",
                                     ![i].status = "running"]
  /\ UNCHANGED <<response, spawned, notApi>>

\* childProcess.on('error'): the executable could not be started
ChildError(i) ==
  /\ i \in 1..Len(processes) /\ processes[i].child = "spawning"
  /\ processes' = [processes EXCEPT ![i].child = "failed",
                                     ![i].status = "stopped"]
  /\ UNCHANGED <<response, spawned, notApi>>

\* childProcess.on('exit'): the child ended, on EXIT, on a signal or by
\* itself
ChildExit(i) ==
  /\ i \in 1..Len(processes) /\ processes[i].child = "alive"
  /\ processes' = [processes EXCEPT ![i].child = "exited",
                                     ![i].status = "stopped"]
  /\ UNCHANGED <<response, spawned, notApi>>

\* the timer set by the 'exit' handler, 5 s later: processes.delete(id)
RemoveTimer(i) ==
  /\ i \in 1..Len(processes) /\ processes[i].child = "exited"
  /\ processes' = deleteAt(processes, i)
  /\ UNCHANGED <<response, spawned, notApi>>

\* POST /api/streaming/stop with channel and token, and
\* ProcessManager.stopProcess: the Error thrown for no match is caught by
\* the handler's catch; for a match the status is set whatever it was, and
\* EXIT and the signals that follow end the child through ChildExit
StopRequest(channel, token) ==
  /\ NoEventDue
  /\ LET found == findProcessByCredentials(processes, channel, token,
                                           DefaultUid) IN
       IF found = 0
         THEN /\ response' =
                   [status |-> 500,
                    error |-> <<"Failed to stop process">>,
                    details |-> <<"No process found for channel ", channel,
                                  " with matching credentials">>]
              /\ UNCHANGED processes
         ELSE /\ processes' = [processes EXCEPT ![found].status = "stopping"]
              /\ response' = [status |-> 200, error |-> <<>>, details |-> <<>>]
  /\ UNCHANGED <<spawned, notApi>>

ApiNext ==
  \/ \E channel \in Channels, token \in Tokens : StartRequest(channel, token)
  \/ \E channel \in Channels, token \in Tokens : StopRequest(channel, token)
  \/ \E i \in 1..MaxSpawns : ChildSpawn(i)
  \/ \E i \in 1..MaxSpawns : ChildError(i)
  \/ \E i \in 1..MaxSpawns : ChildExit(i)
  \/ \E i \in 1..MaxSpawns : RemoveTimer(i)

ApiSpec == Init /\ [][ApiNext]_vars

\* ------------------------------------------------------- the frame sender
\* bytes of the longest access unit handed to the sender alone
MaxFrameLen == 3

FrameBytes == {0, 1, 255}
\* system_clock::now() in milliseconds, as whole seconds and the rest
ClockValues == {[secs |-> t, ms |-> m] : t \in {0, 1, 1730000000},
                                         m \in {0, 7, 42, 999}}
\* the byte order of the machine the program is built for
ByteOrders == {"little", "big"}

notSender == <<mainpc, pm, mutex, commands, exitFlag, readerVars, sendVars,
               preloadVars, crashed, ghostVars, queueVars, m3u8Vars, tsVars,
               cacheVars, apiVars>>

\* the characters of the decimal digits of n >= 0, most significant first
RECURSIVE decimalChars(_)
decimalChars(n) ==
  IF n < 10 THEN <<48 + n>>
  ELSE Append(decimalChars(n \div 10), 48 + (n % 10))

\* std::to_string(millis), millis = secs * 1000 + ms
to_string(millis) ==
  IF millis.secs = 0 THEN decimalChars(millis.ms)
  ELSE decimalChars(millis.secs)
         \o <<48 + (millis.ms \div 100), 48 + ((millis.ms \div 10) % 10),
              48 + (millis.ms % 10)>>

\* std::string ending_text = "AgoraWrc"
ending_text == <<65, 103, 111, 114, 97, 87, 114, 99>>

\* the expression assigned to custom_data_len_le: a uint32_t, held as its
\* four bytes from bits 24-31 down to bits 0-7 (what lies above bit 31
\* does not exist in it)
swapBytes(n) ==
  <<n % 256, (n \div 256) % 256, (n \div 65536) % 256,
    (n \div 16777216) % 256>>

\* memcpy of the 4 bytes of a uint32_t object: lowest bits first in memory
\* on a little-endian machine, highest first on a big-endian one
objectBytes(v, order) ==
  IF order = "little" THEN <<v[4], v[3], v[2], v[1]>> ELSE v

\* sendOneH264Frame: the combined buffer given to sendEncodedVideoImage
sendOneH264Frame(buffer, millis, order) ==
  LET timestamp_str == to_string(millis)
      custom_data_len == Len(timestamp_str)
      custom_data_len_le == swapBytes(custom_data_len) IN
  buffer \o timestamp_str \o objectBytes(custom_data_len_le, order)
         \o ending_text

RECURSIVE framesUpTo(_)
framesUpTo(n) ==
  IF n = 0 THEN {<<>>}
  ELSE LET shorter == framesUpTo(n - 1) IN
       shorter \cup {Append(f, b) : f \in shorter, b \in FrameBytes}

SenderInit ==
  /\ EngineInit /\ QueueIdle /\ M3U8Idle /\ TsIdle /\ CacheIdle /\ ApiIdle
  /\ \E buffer \in framesUpTo(MaxFrameLen) \ {<<>>}, order \in ByteOrders :
       sendArg = [buffer |-> buffer, order |-> order,
                  millis |-> [secs |-> 0, ms |-> 0]]
  /\ sentImage = <<>>

\* one call of sendOneH264Frame with the frame of the state, at some time
SendOneFrame ==
  /\ sentImage = <<>>
  /\ \E now \in ClockValues :
       /\ sendArg' = [sendArg EXCEPT !.millis = now]
       /\ sentImage' = sendOneH264Frame(sendArg.buffer, now, sendArg.order)
  /\ UNCHANGED notSender

SenderNext == SendOneFrame

SenderSpec == SenderInit /\ [][SenderNext]_vars

\* ----------------------------------------------------------------- helpers
\* the files of a source: its segments, or the file itself
FilesOf(src) == Range(setupPaths(src).paths)

\* sources whose file or playlist document cannot be opened
Unreachable == {"X.ts", "X.m3u8"}

\* the access unit that follows au in playlist order over paths
nextInOrder(paths, au) ==
  IF au.n < NumAU THEN [file |-> au.file, n |-> au.n + 1]
  ELSE LET i == CHOOSE k \in 1..Len(paths) : paths[k] = au.file
       IN [file |-> paths[(i % Len(paths)) + 1], n |-> 1]

\* the send loop has just handed an access unit of the active source to the
\* frame sender
SentActive ==
  spc = "pop" /\ frame # NoFrame /\ frame.file \in FilesOf(pm.currentVideoFile)

\* a step of the send loop that returns from getNextFrame
GetFrameStep == spc = "get" /\ spc' = "pop"

\* ------------------------------------------------------------------ claims

\* C1: every access unit the send loop emits was read from a file of the
\* source that is active when it is emitted: no unit of a requested source B
\* before switchToNewPlaylist has applied B, no unit of A afterwards.
C1_NoInterleaving ==
  frame # NoFrame => frame.file \in FilesOf(pm.currentVideoFile)

\* C2: a preloadNewPlaylist call that fails has changed neither the active
\* segment list, segment index, demuxer and source id nor the pending triple.
C2_FailedPreloadNoEffect ==
  [][\A p \in Preloads :
       (ppc[p] \in {"fetch", "init"} /\ ppc'[p] = "idle")
         => /\ p \notin dirty
            /\ ActiveFields(pm') = ActiveFields(pm)
            /\ PendingFields(pm') = PendingFields(pm)]_vars

\* C3: once the preload of the only SWITCH_VIDEO processed so far has
\* failed, the active source stays the one the engine was started on and
\* the send loop keeps emitting its access units (until a further command
\* is processed).
FailedSwitchOnly == nPreloads = 1 /\ nFailed = 1
C3_FailedSwitchKeepsSending ==
  /\ [](FailedSwitchOnly => pm.currentVideoFile \in InitialSources)
  /\ [](FailedSwitchOnly =>
          <>(SentActive \/ ~FailedSwitchOnly \/ exitFlag))

\* C4: once the preload of the only SWITCH_VIDEO processed so far has
\* succeeded, the named source eventually becomes the active one and its
\* first access unit (first unit of its first segment) is emitted; after
\* the switch every emitted unit is read from a file of that source.
PreloadedOnly(s) ==
  nPreloads = 1 /\ pm.newPlaylistReady /\ pm.newVideoFile = s
FirstSent(s) ==
  /\ spc = "pop" /\ pm.currentVideoFile = s
  /\ frame = [file |-> setupPaths(s).paths[1], n |-> 1]
C4_SwitchEventuallyApplied ==
  /\ \A s \in SwitchSources :
       [](PreloadedOnly(s) => <>(FirstSent(s) \/ nPreloads > 1 \/ exitFlag))
  /\ []((nPreloads = 1 /\ ~switchRequested /\ frame # NoFrame)
          => frame.file \in FilesOf(pm.currentVideoFile))

\* C5: with a two-segment playlist active and no command processed, every
\* getNextFrame call returns an access unit, the first one being unit 1 of
\* the first segment and each later one the successor in playlist order of
\* the unit returned before (a1..aN, b1..bN, a1, ...).
C5_TwoSegmentLoop ==
  [][(GetFrameStep /\ nPreloads = 0 /\ Len(pm.segmentPaths) = 2)
       => frame' = IF lastSent = NoFrame
                     THEN [file |-> pm.segmentPaths[1], n |-> 1]
                     ELSE nextInOrder(pm.segmentPaths, lastSent)]_vars
C5_Witness ==
  /\ nPreloads = 0 /\ Len(pm.segmentPaths) = 2
  /\ spc = "pop" /\ frame = [file |-> pm.segmentPaths[2], n |-> 1]
  /\ pm.currentSegmentIndex = 1

\* C6: while one source stays active, each emitted access unit is the
\* successor in playlist order of the unit emitted before it, also while
\* preloads run in the background.
C6_PlaylistOrder ==
  [][(GetFrameStep /\ frame' # NoFrame /\ lastSent # NoFrame)
       => /\ lastSent.file \in Range(pm.segmentPaths)
          /\ frame' = nextInOrder(pm.segmentPaths, lastSent)]_vars

\* C7: a thread that reads or writes currentSegmentIndex_ or currentParser_
\* holds the manager's mutex, and no preload thread is between its accesses
\* to the demuxer while the send loop is inside a critical section.
Holds(p) == mutex = "preload" /\ ppc[p] = "publish2"
C7_AccessUnderMutex ==
  [][/\ \A p \in Preloads :
          (PreloadBegin(p) \/ PreloadReset(p) \/ PreloadInit(p)) => Holds(p)
     /\ ~(spc = "sw_init" /\ \E p \in Preloads : ppc[p] \in {"reset", "init"})
    ]_vars

\* C8: with the mutex free and newPlaylistReady_ set, the pending segment
\* list is non-empty and is the list one preload builds from newVideoFile_.
C8_PendingTripleConsistent ==
  (mutex = "free" /\ pm.newPlaylistReady)
    => /\ pm.newSegmentPaths # <<>>
       /\ setupPaths(pm.newVideoFile).ok
       /\ pm.newSegmentPaths = setupPaths(pm.newVideoFile).paths
C8_Witness ==
  /\ mutex = "free" /\ pm.newPlaylistReady
  /\ \E p \in Preloads : ppc[p] = "publish" /\ psrc[p] # pm.newVideoFile

\* C9: switchToNewPlaylist called with newPlaylistReady_ false returns false
\* and changes no field of the manager.
C9_SwitchNotReadyNoOp ==
  [][(spc = "sw" /\ spc' # "sw" /\ ~pm.newPlaylistReady)
       => (pm' = pm /\ switchRet' = "false")]_vars
C9_Witness ==
  /\ spc = "get" /\ switchRet = "false"
  /\ \E p \in Preloads : ppc[p] = "fetch"
  /\ nPreloads = 1 /\ ~pm.newPlaylistReady

AtEOF(m) ==
  /\ m.currentParser # NullParser
  /\ m.currentSegmentIndex < Len(m.segmentPaths)
  /\ m.currentParser.file = m.segmentPaths[m.currentSegmentIndex + 1]
  /\ getH264Frame(m.currentParser).frame = NoFrame
C11_EofAdvanceOrRestart ==
  [][(GetFrameStep /\ AtEOF(pm))
       => IF isM3U8(pm.currentVideoFile)
            THEN Len(pm.segmentPaths) > 1
                   => /\ pm'.currentSegmentIndex =
                           (pm.currentSegmentIndex + 1) % Len(pm.segmentPaths)
                      /\ pm'.currentParser.file =
                           pm.segmentPaths[pm'.currentSegmentIndex + 1]
            ELSE /\ pm'.currentSegmentIndex = pm.currentSegmentIndex
                 /\ pm'.currentParser.file = pm.currentParser.file]_vars

\* C12: once exitFlag is set while the threads run, the send loop and the
\* command reader both leave their loops (so that both joins of main
\* return), whatever stdin delivers afterwards, also if it delivers nothing.
C12_ShutdownJoins ==
  [](exitFlag /\ mainpc = "run"
       => <>(crashed \/ (spc = "done" /\ rpc = "done")))

\* C13: the commands popped so far followed by those still queued are the
\* commands pushed so far, in push order (nothing lost, duplicated or
\* reordered), and a pop on an empty queue returns false and leaves the
\* queue as it is.
C13_QueueFifo ==
  /\ [](pushed = popped \o commands)
  /\ [][(pushed' = pushed /\ commands = <<>>)
          => (popRet' = "false" /\ commands' = <<>> /\ popped' = popped)]_vars
C13_Witness ==
  /\ Len(popped) = 2 /\ Len(commands) = 1 /\ popRet = "true"
  /\ popped[1] # popped[2] /\ commands[1] = popped[1]

\* C14: when initialize fails on the source the engine is started on (no
\* segment line, or a first segment whose demuxer does not initialize), main
\* returns -1: the command reader and the send loop are never started and no
\* access unit is ever emitted.
InitFails(src) ==
  LET r == setupPaths(src)
  IN ~r.ok \/ r.paths = <<>> \/ r.paths[1] \notin ReadableFiles
C14_InitFailureIsFatal ==
  /\ [][(mainpc = "init" /\ mainpc' # "init"
           /\ InitFails(pm'.currentVideoFile)) => mainpc' = "failed"]_vars
  /\ [](mainpc = "failed"
          => /\ rpc = "idle" /\ spc = "idle" /\ nread = 0
             /\ frame = NoFrame /\ lastSent = NoFrame
             /\ \A p \in Preloads : ppc[p] = "idle")
C14_Witness ==
  /\ mainpc = "failed" /\ pm.currentVideoFile = "Y.m3u8"
  /\ pm.segmentPaths = <<"y1.ts", "y2.ts">> /\ ~pm.currentParser.ok

\* C15: for a document that opens, with N lines that are neither empty nor
\* start with '#', parseM3U8 yields N segments in file order, each with the
\* duration of the last #EXTINF:<number>, line between it and the segment
\* line before it (0 without one); parseM3U8 returns false exactly if N = 0
\* or the document does not open, and otherwise returns true.
isSegmentLine(l) == l # <<>> /\ l[1] # "#"
SegmentLineIdx(lines) ==
  SelectSeq([i \in 1..Len(lines) |-> i],
            LAMBDA i : isSegmentLine(stripCR(lines[i])))
hasDuration(l) ==
  /\ startsWith(l, EXTINF) /\ find(l, ",") > Len(EXTINF)
  /\ \A i \in (Len(EXTINF) + 1)..find(l, ",") : l[i] \in Digits
durationOf(l) == digitsValue(SubSeq(l, Len(EXTINF) + 1, find(l, ",")), 0)
RefDuration(lines, from, to) ==
  LET D == {i \in (from + 1)..(to - 1) : hasDuration(stripCR(lines[i]))}
  IN IF D = {} THEN 0
     ELSE durationOf(stripCR(lines[CHOOSE i \in D : \A j \in D : j <= i]))
endsWith(str, suffix) ==
  /\ Len(str) >= Len(suffix)
  /\ SubSeq(str, Len(str) - Len(suffix) + 1, Len(str)) = suffix
C15_ParseM3U8 ==
  m3u8Ret # NotParsed =>
    LET idx == SegmentLineIdx(m3u8File.lines)
        N   == Len(idx)
        seg == m3u8Ret.segments
    IN /\ m3u8Ret.status \in {"ok", "fail"}
       /\ (m3u8Ret.status = "fail") <=> (~m3u8File.open \/ N = 0)
       /\ m3u8Ret.status = "ok"
            => /\ Len(seg) = N
               /\ \A k \in 1..N :
                    /\ endsWith(seg[k].url, stripCR(m3u8File.lines[idx[k]]))
                    /\ seg[k].duration =
                         RefDuration(m3u8File.lines,
                                     IF k = 1 THEN 0 ELSE idx[k - 1], idx[k])

\* C17: once initialize has probed a file whose tables declare exactly one
\* stream of type 0x1B, it has succeeded and video_pid_ is the PID the PMT
\* declares for that stream, whatever the program descriptors and the number
\* of programs; when the tables declare no such stream, it has failed.
C17_ProbeFindsDeclaredPid ==
  tsRet # "none" =>
    /\ Cardinality(tsFile.declared) = 1 =>
         /\ tsRet # "init_fail"
         /\ tsParser.video_pid \in tsFile.declared
    /\ tsFile.declared = {} => tsRet = "init_fail"

\* an access unit holds a start code (00 00 01, which also ends 00 00 00 01)
\* immediately followed by a NAL header of type 5
holdsIdr(buf) ==
  \E i \in 1..(Len(buf) - 3) :
    buf[i] = 0 /\ buf[i + 1] = 0 /\ buf[i + 2] = 1 /\ buf[i + 3] % 32 = 5

\* C16: every access unit returned is flagged as a key frame if and only if
\* its bytes hold a start code followed by a NAL header of type 5, wherever
\* the start code lies (inside a packet's payload, at its end, or across two
\* packets).
C16_KeyFrameIffIdr ==
  \A k \in 1..Len(tsFrames) :
    tsFrames[k].key <=> holdsIdr(tsFrames[k].buf)

\* reference extraction: the payloads of the packets of PID vpid are grouped
\* into PES packets at the payload-unit starts, and each PES packet loses its
\* header (9 bytes and the header data the 9th announces); what precedes the
\* first payload-unit start is taken as it is
stripPes(g, hasHeader) ==
  IF ~hasHeader THEN g
  ELSE IF Len(g) < 9 \/ 9 + g[9] >= Len(g) THEN <<>>
  ELSE SubSeq(g, 10 + g[9], Len(g))
RECURSIVE refEs(_, _, _, _, _)
refEs(data, vpid, o, g, hasHeader) ==
  IF o + TS_PKT_SIZE > Len(data) THEN stripPes(g, hasHeader)
  ELSE IF \/ data[o + 1] # TS_SYNC_BYTE
          \/ (data[o + 2] % 32) * 256 + data[o + 3] # vpid
          \/ (data[o + 4] \div 16) % 2 = 0
    THEN refEs(data, vpid, o + TS_PKT_SIZE, g, hasHeader)
  ELSE LET adapt   == IF (data[o + 4] \div 32) % 2 = 1
                        THEN 1 + data[o + 5] ELSE 0
           payload == SubSeq(data, o + 5 + adapt, o + TS_PKT_SIZE)
       IN IF (data[o + 2] \div 64) % 2 = 1
            THEN stripPes(g, hasHeader)
                   \o refEs(data, vpid, o + TS_PKT_SIZE, payload, TRUE)
            ELSE refEs(data, vpid, o + TS_PKT_SIZE, g \o payload, hasHeader)

\* the bytes of a sequence of access units, one after the other
RECURSIVE auBytes(_)
auBytes(frames) ==
  IF frames = <<>> THEN <<>>
  ELSE Head(frames).buf \o auBytes(Tail(frames))

\* the read position after an access unit is the end of the file or a
\* packet of the video PID with payload-unit start
atBoundary(data, vpid, o) ==
  \/ o + TS_PKT_SIZE > Len(data)
  \/ /\ data[o + 1] = TS_SYNC_BYTE
     /\ (data[o + 2] % 32) * 256 + data[o + 3] = vpid
     /\ (data[o + 2] \div 64) % 2 = 1

\* C18: for an undamaged file, the access units returned from offset 0 up to
\* the end of file, one after the other, are exactly the elementary-stream
\* bytes of the video-PID packets in file order (adaptation fields and PES
\* headers stripped), and every access unit ends at a payload-unit-start
\* packet of the video PID or at the end of the file.
C18_RoundTrip ==
  (Len(tsPasses) >= 1 /\ tsFile.inject = NoInject) =>
    /\ auBytes(tsPasses[1])
         = refEs(tsFile.data, tsParser.video_pid, 0, <<>>, FALSE)
    /\ \A k \in 1..Len(tsPasses[1]) :
         atBoundary(tsFile.data, tsParser.video_pid, tsPasses[1][k].end)

\* s is an initial part of t
isPrefix(s, t) == Len(s) <= Len(t) /\ s = SubSeq(t, 1, Len(s))

\* C19: after a file read alone reached its end and was restarted, the access
\* units returned (bytes and key-frame flags) are those of the first pass in
\* the same order, from the first one on; the restart sets the read offset
\* to 0 and changes neither video_pid_ nor the mapped file.
C19_RestartReproduces ==
  /\ [](Len(tsPasses) = 1 => isPrefix(tsFrames, tsPasses[1]))
  /\ [](Len(tsPasses) = 2 => tsPasses[2] = tsPasses[1])
  /\ [][(tsRet = "eof" /\ tsRet' = "restart") =>
          /\ tsParser'.offset = 0
          /\ tsParser'.video_pid = tsParser.video_pid
          /\ tsParser'.size = tsParser.size
          /\ tsFile' = tsFile]_vars
C19_Witness ==
  /\ Len(tsPasses) = 2
  /\ Len(tsPasses[2]) = 2
  /\ tsPasses[2][1].key /\ ~tsPasses[2][2].key
  /\ tsPasses[2][1].buf # tsPasses[2][2].buf
  /\ tsRet = "eof"

\* the frames returned so far in the passes over the file
RECURSIVE allFrames(_)
allFrames(passes) ==
  IF passes = <<>> THEN <<>> ELSE Head(passes) \o allFrames(Tail(passes))

\* C20: in a file with 200 non-sync bytes injected at an offset, no access
\* unit returned holds bytes of a packet located at or after that offset,
\* and once the read position has reached the offset the next call reports
\* the end of the file.
C20_DesyncStopsAtOffset ==
  tsFile.inject.len = 200 =>
    /\ \A k \in 1..Len(allFrames(tsPasses) \o tsFrames) :
         (allFrames(tsPasses) \o tsFrames)[k].last < tsFile.inject.at
    /\ (tsRet = "frame" /\ tsParser.offset >= tsFile.inject.at) =>
         tsGetH264Frame(tsFile.data, tsParser).frame = NoTsFrame

\* switchToNewPlaylist installs the pending playlist in this step
SwitchApplied == spc = "sw" /\ pm.newPlaylistReady /\ ~pm'.newPlaylistReady

\* C21: the pending playlist is installed only at a segment boundary of the
\* playlist being played: the last access unit emitted from the active
\* source, if any, is the last one of its segment.
C21_SwitchAtSegmentBoundary ==
  [][SwitchApplied => (lastSent = NoFrame \/ lastSent.n = NumAU)]_vars

\* C23: once initialize has returned, currentVideoFile_ changes only in the
\* step in which switchToNewPlaylist installs the pending playlist: every
\* step of getNextFrame and of a preload, in any interleaving, leaves it
\* unchanged.
C23_SourceChangesOnlyInSwitch ==
  [][(mainpc = "run" /\ pm'.currentVideoFile # pm.currentVideoFile)
       => (SwitchApplied /\ pm'.currentVideoFile = pm.newVideoFile)]_vars
C23_Witness ==
  /\ pm.currentVideoFile = "B.m3u8"
  /\ lastSent = [file |-> "b2.ts", n |-> 1]
  /\ \E p \in Preloads : ppc[p] = "init" /\ psrc[p] = "S.ts"

\* the only preload started so far sits in its download
StuckFetch == nPreloads = 1 /\ \E p \in Preloads : ppc[p] = "fetch"

\* C22: a preload thread holds the manager's mutex only in its final
\* publication, so the send loop is never kept from locking it by a fetch or
\* a parse; and while the only preload started sits in its download, every
\* getNextFrame the send loop is about to call is made and hands over an
\* access unit of the active source.
C22_StuckPreloadDoesNotBlock ==
  /\ [](mutex = "preload" => \E p \in Preloads : ppc[p] = "publish2")
  /\ [](\A p \in Preloads :
          ppc[p] \in {"start", "fetch", "reset", "init", "publish"}
            => (spc \in {"sw", "get"} /\ mutex # "free"
                  => \E q \in Preloads \ {p} : ppc[q] = "publish2"))
  /\ (spc = "get" /\ StuckFetch)
       ~> \/ /\ spc = "pop" /\ frame # NoFrame
             /\ frame.file \in Range(pm.segmentPaths)
          \/ ~StuckFetch
C22_Witness ==
  /\ StuckFetch
  /\ \E p \in Preloads : ppc[p] = "fetch" /\ psrc[p] = "B.m3u8"
  /\ pm.currentVideoFile = "A.m3u8"
  /\ spc = "pop" /\ frame = [file |-> "a2.ts", n |-> 2]
  /\ switchRequested /\ switchRet = "false"

\* a line the reader accepts: EXIT, or SWITCH_VIDEO: and a non-empty source
accepted(line) ==
  line = <<"EXIT", "">> \/ (line[1] = "SWITCH_VIDEO:" /\ line[2] # "")

\* C24: a step of the command reader on a line appends one command, EXIT for
\* the line EXIT and SWITCH_VIDEO with the source for SWITCH_VIDEO:<source>,
\* and on every other line (empty, unknown, SWITCH_VIDEO: without source) it
\* appends nothing and changes nothing of the engine but the reader's count
\* of lines read.
C24_ReaderEnqueuesOnlyCommands ==
  [][\A line \in Lines : ReaderLine(line) =>
       IF accepted(line)
         THEN commands' = Append(commands,
                IF line[1] = "EXIT" THEN ExitCmd ELSE SwitchCmd(line[2]))
         ELSE /\ commands' = commands
              /\ rpc' = IF exitFlag THEN "done" ELSE rpc
              /\ UNCHANGED <<mainpc, pm, mutex, exitFlag, sendVars,
                             preloadVars, crashed, ghostVars>>]_vars
C24_Witness ==
  /\ nread = 2 /\ rpc = "getline"
  /\ commands = <<SwitchCmd("B.m3u8")>>
  /\ nPreloads = 0 /\ ~exitFlag
  /\ lastSent = [file |-> "a1.ts", n |-> 2]

\* C25: in a sequence of set-ups of remote playlists, one after the other,
\* no transfer is started for a path that exists in the cache, and no path
\* is downloaded to the end more than once.
C25_DownloadAtMostOnce ==
  /\ \A i \in 1..Len(fetchLog) : ~fetchLog[i].existed
  /\ \A i, j \in 1..Len(fetchLog) :
       (fetchLog[i].done /\ fetchLog[j].done
          /\ fetchLog[i].path = fetchLog[j].path) => i = j
C25_Witness ==
  /\ nSetups = 3 /\ setupRet = "true"
  /\ Len(fetchLog) = 3
  /\ \A i \in 1..3 : fetchLog[i].done
  /\ {fetchLog[i].path : i \in 1..3}
       = {CACHE_BASE_PATH \o <<"vba", "x", f>> :
            f \in {"p.m3u8", "s1.ts", "s2.ts"}}

\* C26: the manager's mutex is never held across a blocking step. The send
\* loop does not hold it while the demuxer of the first segment is opened,
\* mapped and probed (position sw_init), and a preload thread holds it only
\* for its final publication.
C26_NoIOUnderMutex ==
  /\ ~(mutex = "send" /\ spc = "sw_init")
  /\ (mutex = "preload" => \E p \in Preloads : ppc[p] = "publish2")

\* the loop of _readOnePes run from the demuxer's present position
readFromHere ==
  readOnePes(SubSeq(tsFile.data, 1, tsParser.size), tsParser.video_pid,
             tsParser.offset, <<>>, FALSE, FALSE, -1, tsParser.au_buf)

\* the file holds a run of at least kMaxDesync packet positions without sync
\* byte, placed on a packet boundary
hasLongRun ==
  /\ tsFile.inject.len >= kMaxDesync * TS_PKT_SIZE
  /\ tsFile.inject.at % TS_PKT_SIZE = 0

\* C27: on every file, corrupt ones included, a call of _readOnePes ends with
\* the offset not below where it started and not beyond the size, and it has
\* moved forward unless no whole packet is left.  In a file with a run of
\* kMaxDesync packet positions without sync byte, the call that meets the
\* run sets the offset to the size, no access unit holds bytes from behind
\* the run, the next result is the end of the stream, and the restart of
\* the source gives the same units again.
C27_ExtractionTerminates ==
  /\ tsRet \in {"init_ok", "frame", "restart"} =>
       /\ readFromHere.offset >= tsParser.offset
       /\ readFromHere.offset <= tsParser.size
       /\ \/ readFromHere.offset > tsParser.offset
          \/ tsParser.offset + TS_PKT_SIZE > tsParser.size
  /\ hasLongRun =>
       /\ \A k \in 1..Len(allFrames(tsPasses) \o tsFrames) :
            LET f == (allFrames(tsPasses) \o tsFrames)[k]
            IN /\ f.last < tsFile.inject.at
               /\ f.end > tsFile.inject.at => f.end = Len(tsFile.data)
       /\ (tsRet = "frame" /\ tsParser.offset > tsFile.inject.at) =>
            /\ tsParser.offset = tsParser.size
            /\ tsGetH264Frame(tsFile.data, tsParser).frame = NoTsFrame
       /\ \A i \in 1..Len(tsPasses) : tsPasses[i] = tsPasses[1]
C27_Witness ==
  /\ hasLongRun
  /\ Len(tsPasses) = 2
  /\ Len(tsPasses[2]) = 1
  /\ tsPasses[2][1].end = Len(tsFile.data)
  /\ tsPasses[2][1].last < tsFile.inject.at
  /\ tsRet = "eof"

\* the offset at which the call that returned tsFrames[k] started
startOf(k) == IF k = 1 THEN 0 ELSE tsFrames[k - 1].end

\* the access unit that starts at offset o, collected without any limit of
\* capacity
wholeUnit(o) ==
  readOnePes(SubSeq(tsFile.data, 1, tsParser.size), tsParser.video_pid, o,
             <<>>, FALSE, FALSE, -1, Len(tsFile.data)).au

\* tsFrames[k] was cut short by the capacity of the scratch array
truncated(k) == tsFrames[k].buf # wholeUnit(startOf(k))

\* the bytes of the whole unit that tsFrames[k] leaves out
restOf(k) ==
  SubSeq(wholeUnit(startOf(k)), Len(tsFrames[k].buf) + 1,
         Len(wholeUnit(startOf(k))))

\* C28: with a scratch array of limited capacity no access unit returned is
\* longer than the capacity; a unit that does not fit is returned as the
\* bytes collected before the packet that did not fit, and the next call
\* returns a unit again, which starts at that packet with the bytes left
\* out (all of them, or as many as fit).
C28_TruncatedNotLost ==
  /\ \A k \in 1..Len(tsFrames) :
       /\ Len(tsFrames[k].buf) <= tsParser.au_buf
       /\ tsFrames[k].buf # <<>>
       /\ truncated(k) => isPrefix(tsFrames[k].buf, wholeUnit(startOf(k)))
  /\ \A i \in 1..Len(tsPasses) : \A k \in 1..Len(tsPasses[i]) :
       Len(tsPasses[i][k].buf) <= tsParser.au_buf
  /\ (tsRet = "frame" /\ truncated(Len(tsFrames))) =>
       LET k == Len(tsFrames)
           nxt == tsGetH264Frame(tsFile.data, tsParser).frame
       IN /\ nxt # NoTsFrame
          /\ nxt.last >= tsFrames[k].end
          /\ isPrefix(nxt.buf, restOf(k)) \/ isPrefix(restOf(k), nxt.buf)
C28_Witness ==
  /\ tsParser.au_buf = SmallBuf
  /\ tsFile \in TruncFiles
  /\ Len(tsFrames) = 3
  /\ truncated(1) /\ truncated(2)
  /\ Len(wholeUnit(0)) > 2 * SmallBuf - 2 * TS_PKT_SIZE
  /\ isPrefix(wholeUnit(0),
              tsFrames[1].buf \o tsFrames[2].buf \o tsFrames[3].buf)
  /\ Len(tsFrames[1].buf) + Len(tsFrames[2].buf) + Len(tsFrames[3].buf)
       > Len(wholeUnit(0))

\* C29: when switchToNewPlaylist returns true in the send loop, the source
\* it made active is the one named by pendingVideoSwitch, and the loop goes
\* on with switchRequested false and pendingVideoSwitch empty; when it
\* returns false, switchRequested and pendingVideoSwitch are kept.
C29_SwitchMatchesLabel ==
  [][/\ (spc = "sw_init" /\ switchRet' = "true") =>
          /\ pm'.currentVideoFile = pendingVideoSwitch
          /\ ~switchRequested' /\ pendingVideoSwitch' = ""
          /\ spc' = "get"
     /\ (spc \in {"sw", "sw_init"} /\ switchRet' = "false") =>
          /\ switchRequested' /\ pendingVideoSwitch' = pendingVideoSwitch
          /\ spc' = "get"]_vars

\* C30: once the send loop has popped EXIT (exitFlag is set by nothing else
\* here), it takes no command from the queue, switchToNewPlaylist installs
\* no playlist, a frame is obtained only by the getNextFrame call of the
\* iteration that popped EXIT, and at the loop test the loop is left.
C30_NothingAfterExit ==
  [][exitFlag =>
       /\ Len(commands') >= Len(commands)
       /\ ~SwitchApplied
       /\ (frame' # frame /\ frame' # NoFrame) => (spc = "get" /\ spc' = "pop")
       /\ spc = "pop" => spc' \in {"pop", "done"}
       /\ spc = "done" => spc' = "done"]_vars

\* C30, apart from the switch: no pop, one getNextFrame at most, loop left
C30_ExitEndsLoop ==
  [][exitFlag =>
       /\ Len(commands') >= Len(commands)
       /\ (frame' # frame /\ frame' # NoFrame) => (spc = "get" /\ spc' = "pop")
       /\ spc = "pop" => spc' \in {"pop", "done"}
       /\ spc = "done" => spc' = "done"]_vars

\* C29, the result false: the request and the label are kept
C29_FailureKeepsRequest ==
  [][(spc \in {"sw", "sw_init"} /\ switchRet' = "false") =>
          /\ switchRequested' /\ pendingVideoSwitch' = pendingVideoSwitch
          /\ spc' = "get"]_vars

\* the send loop has just processed the last of MaxLines SWITCH_VIDEO
\* commands, which names s; every command named a source that can be set up
\* and no preload has failed
LastSwitchPopped(s) ==
  /\ nread = MaxLines /\ commands = <<>> /\ nPreloads = MaxLines
  /\ spc = "sw" /\ pendingVideoSwitch = s
  /\ nFailed = 0
  /\ \A p \in Preloads : psrc[p] \in {"B.m3u8", "S.ts", ""}

\* C31: when the send loop has processed several SWITCH_VIDEO commands whose
\* preloads all succeed, then, the threads being scheduled fairly, from some
\* point on the active source is the source of the last command (runs in
\* which the process dies on the unlocked use of currentParser_ are left
\* aside).
C31_LastSwitchWins ==
  \A s \in {"B.m3u8", "S.ts"} :
    LastSwitchPopped(s) ~> (crashed \/ [](pm.currentVideoFile = s))

\* C32: once initialize has returned true, in every state with the manager's
\* mutex free the demuxer currentParser_ is opened on the file
\* segmentPaths_[currentSegmentIndex_].
C32_ParserOnActiveSegment ==
  (mainpc = "run" /\ mutex = "free" /\ ~crashed) =>
    /\ pm.currentParser # NullParser
    /\ pm.currentSegmentIndex < Len(pm.segmentPaths)
    /\ pm.currentParser.file = pm.segmentPaths[pm.currentSegmentIndex + 1]

\* C33: once initialize has returned true, segmentPaths_ is not empty and
\* currentSegmentIndex_ is an index of it.
C33_IndexInRange ==
  (mainpc = "run" /\ ~crashed) =>
    /\ pm.segmentPaths # <<>>
    /\ 0 <= pm.currentSegmentIndex
    /\ pm.currentSegmentIndex < Len(pm.segmentPaths)

C33_Witness ==
  /\ mainpc = "run" /\ ~crashed
  /\ nPreloads = 2 /\ nFailed = 1
  /\ pm.currentVideoFile = "B.m3u8"
  /\ pm.segmentPaths = <<"b1.ts", "b2.ts">>
  /\ pm.currentSegmentIndex = 1
  /\ lastSent = [file |-> "b2.ts", n |-> 1]

\* C34: a switchToNewPlaylist call that returns false leaves segmentPaths_
\* and currentVideoFile_ as they were: it returns false in the step that
\* finds nothing pending, without changing them, and a call that has
\* installed the pending list does not return false.
C34_FailedSwitchKeepsSource ==
  [][/\ (spc = "sw" /\ switchRet' = "false") =>
          /\ pm'.segmentPaths = pm.segmentPaths
          /\ pm'.currentVideoFile = pm.currentVideoFile
     /\ (spc = "sw_init" /\ spc' # "sw_init") => switchRet' # "false"]_vars

\* the active demuxer is the one of a segment on which initialize() failed,
\* and no switch command has been processed
OnBadSegment ==
  /\ mainpc = "run" /\ nPreloads = 0 /\ ~crashed
  /\ pm.currentSegmentIndex > 0
  /\ pm.currentParser.file = pm.segmentPaths[pm.currentSegmentIndex + 1]
  /\ ~pm.currentParser.ok

\* an access unit of a segment that plays has been handed to the sender
SentValid ==
  spc = "pop" /\ frame # NoFrame /\ frame.file \in ReadableFiles

\* C35: the getNextFrame call that advances to a segment whose demuxer does
\* not initialize returns nullptr, and from then on, the send loop being
\* scheduled, an access unit of a segment that plays is eventually emitted
\* (unless the loop is told to exit or to switch first).
C35_BadSegmentSkipped ==
  /\ [][(GetFrameStep /\ ~OnBadSegment /\ OnBadSegment') =>
          frame' = NoFrame]_vars
  /\ OnBadSegment ~> (SentValid \/ exitFlag \/ nPreloads > 0)

\* C35 for a segment that cannot be opened
C35_MissingSegmentSkipped ==
  /\ [][(GetFrameStep /\ ~OnBadSegment /\ OnBadSegment') =>
          frame' = NoFrame]_vars
  /\ (OnBadSegment /\ pm.currentParser.file \notin UnmappableFiles)
       ~> (SentValid \/ exitFlag \/ nPreloads > 0)

\* C36: the registry never holds two processes of one channel that are both
\* starting or running, and a start request for a channel that has a
\* starting or running process spawns nothing.
C36_OneProcessPerChannel ==
  /\ [](\A i, j \in 1..Len(processes) :
          (/\ i # j
           /\ processes[i].channel = processes[j].channel
           /\ processes[i].status \in {"starting", "running"})
            => processes[j].status \notin {"starting", "running"})
  /\ [][\A channel \in Channels :
          ((\E i \in 1..Len(processes) :
               /\ processes[i].channel = channel
               /\ processes[i].status \in {"starting", "running"})
           /\ \E token \in Tokens : StartRequest(channel, token))
            => (spawned' = spawned /\ processes' = processes
                  /\ response'.status = 409)]_vars

\* C37: a stop request that matches no process on channel, token and uid is
\* answered with status 404 and the error 'No process found for channel ...
\* with matching credentials', and no entry of the registry changes.
C37_StopUnknown404 ==
  [][\A channel \in Channels, token \in Tokens :
       (/\ StopRequest(channel, token)
        /\ findProcessByCredentials(processes, channel, token, DefaultUid) = 0)
         => /\ response'.status = 404
            /\ response'.error = <<"No process found for channel ", channel,
                                   " with matching credentials">>
            /\ processes' = processes]_vars

\* C37, the registry alone: such a request changes no entry
C37_StopUnknownNoChange ==
  [][\A channel \in Channels, token \in Tokens :
       (/\ StopRequest(channel, token)
        /\ findProcessByCredentials(processes, channel, token, DefaultUid) = 0)
         => processes' = processes]_vars

\* the 4 bytes of n, least significant first
littleEndian4(n) ==
  <<n % 256, (n \div 256) % 256, (n \div 65536) % 256,
    (n \div 16777216) % 256>>

\* C38: every frame handed to the frame sender is the access-unit bytes,
\* then the decimal millisecond timestamp, then the length of that string
\* as 4 bytes little-endian, then the 8 bytes 'AgoraWrc'; its length is the
\* access-unit length + the timestamp length + 12.
C38_FrameLayout ==
  sentImage # <<>> =>
    LET ts == to_string(sendArg.millis) IN
    /\ sentImage = sendArg.buffer \o ts \o littleEndian4(Len(ts))
                     \o <<65, 103, 111, 114, 97, 87, 114, 99>>
    /\ Len(sentImage) = Len(sendArg.buffer) + Len(ts) + 12

\* C38, without the length field: the access unit, the timestamp, 4 bytes,
\* 'AgoraWrc', and the total length
C38_FrameLayoutButLength ==
  sentImage # <<>> =>
    LET ts == to_string(sendArg.millis)
        n == Len(sendArg.buffer) IN
    /\ Len(sentImage) = n + Len(ts) + 12
    /\ SubSeq(sentImage, 1, n) = sendArg.buffer
    /\ SubSeq(sentImage, n + 1, n + Len(ts)) = ts
    /\ SubSeq(sentImage, n + Len(ts) + 5, Len(sentImage))
         = <<65, 103, 111, 114, 97, 87, 114, 99>>

\* C38, the length field as the program writes it on a little-endian
\* machine: most significant byte first
C38_LengthBigEndianOnLittleHost ==
  (sentImage # <<>> /\ sendArg.order = "little") =>
    LET ts == to_string(sendArg.millis)
        n == Len(sendArg.buffer) IN
    SubSeq(sentImage, n + Len(ts) + 1, n + Len(ts) + 4) = <<0, 0, 0, Len(ts)>>

====
